---- MODULE Spec2Model ----
(***************************************************************************)
(* Pattern editor shortcut handler of ZorroTracker: the selection and      *)
(* navigation commands of the `sel` group, the `chfx` and `note` groups,   *)
(* modelled from src/ui/elements/patterneditor/shortcut handler.ts.        *)
(*                                                                         *)
(* Positions keep the program's zero-based indices.  The multi selection   *)
(* is the empty tuple when absent and the pair <<sl[0], sl[1]>> when       *)
(* present, so the program's sl[i] is multi[i + 1] here.                   *)
(***************************************************************************)
EXTENDS Integers, Sequences, FiniteSets, TLC

VARIABLES
    single,          \* selectionManager.single: the cursor
    multi,           \* selectionManager.multi: <<>> or <<sl[0], sl[1]>>
    patternLen,      \* parent.patternLen: rows per pattern
    matrix,          \* parent.tab.matrix: per pattern slot, per channel, the real pattern
    channelInfo,     \* parent.channelInfo: per channel, the element ids
    rowHighlights,   \* parent.scrollManager.rowHighlights
    channels,        \* parent.tab.channels: per channel, type, features, info.effects
    selectedChannel, \* parent.tab.selectedChannel, as a channel index
    octave,          \* parent.tab.octave
    recordMode,      \* parent.tab.recordMode
    scmap,           \* scmap: key name -> note id of the held key
    cells,           \* note of the pattern cell <<channel, real pattern, row>>
    edited,          \* the <<channel, real pattern>> pairs marked edited
    dirty,           \* whether the project is dirty
    nanNotes,        \* the note ids whose entry in the table of tab.getNotes holds NaN
    keys,            \* keys: MIDI key -> driver note of the MIDI listeners
    pianoNotes,      \* pianoNotes of the driver: channel id -> note
    chip,            \* the values the driver wrote to the chip, in order
    tasks,           \* the receiveShortcut calls in flight, in dispatch order
    history,         \* history: per note key and per MIDI key, the note of its last press
    call,            \* the last receiveShortcut call and its result, NoCall when idle
    exit,            \* the Exit listener: where it is and what it met so far
    ipc,             \* the main process: rpc client, worker, its listeners and messages, windows, replies
    ipcCall          \* the last step of the main process or the worker, with the state before a UiExit

grid == <<patternLen, matrix, channelInfo, rowHighlights, octave, recordMode,
          nanNotes>>

\* the state outside the handler object: the MIDI key table, the driver and
\* the calls in flight
ext == <<keys, pianoNotes, chip, tasks, history>>

\* the state of the editor layout and of the main process
sys == <<exit, ipc, ipcCall>>

vars == <<single, multi, grid, channels, selectedChannel, scmap, cells, edited,
          dirty, ext, call, sys>>

----------------------------------------------------------------------------
(* Bounds of the model *)

\* rows per pattern in the navigation specification
NavPatternLen == 3

\* the pattern matrix of the navigation specification: per pattern slot, the
\* real pattern of each channel
NavMatrix == << <<0, 0, 0>>, <<1, 1, 1>> >>

\* element ids per channel in the navigation specification
NavChannelInfo == << <<0, 1>>, <<0>>, <<0, 1>> >>

\* highlight intervals of the navigation specification
NavRowHighlights == <<2, 4>>

\* parent.maxEffects
MaxEffects == 2

\* rows per pattern in the specification of all command groups
AllPatternLen == 1

\* its pattern matrix, element ids per channel and highlight intervals
AllMatrix == << <<0>> >>

AllChannelInfo == << <<0, 1>> >>

AllRowHighlights == <<4>>

\* rows per pattern in the highlight specification
HiPatternLen == 6

\* its pattern matrix and element ids per channel
HiMatrix == << <<0>>, <<1>> >>

HiChannelInfo == << <<0>> >>

\* the highlight interval lists the highlight specification starts from
HiRowHighlights ==
    {<<2, 4>>, <<4, 16>>, <<8>>, <<3>>, <<5, 2>>, <<>>, <<1>>, <<6>>}

----------------------------------------------------------------------------
(* Values *)

\* api/notes: the octave span, the first and last note of the table, note C0,
\* and the special notes
OctaveSize == 12
NoteFirst == 4
NoteLast == 160
NoteC0 == 52
NoteRest == 1
NoteCut == 2

\* this.frequencies.length
FrequencyCount == 96

\* the value of data.shift() on an empty array
Undefined == "<undefined>"

\* the fraction 0.0001 of a row, in units of 1/Scale row
Scale == 10000

NoMulti == <<>>

NoCall == [active |-> FALSE]

\* the note specification: two pattern slots, an FM channel with a note and
\* an effect column, a PSG channel with a note column
NoteMatrix == << <<0, 0>>, <<1, 0>> >>
NoteChannelInfo == << <<0, 1>>, <<0>> >>

\* the note ids whose table entry holds NaN in the note specification
NoteNaNs == {NoteC0 + OctaveSize + 1}

\* the most values the chip log holds
MaxChipWrites == 5

\* the most calls in flight at a time
MaxTasks == 2

\* the DriverFunc requests, UiExit(true) requests and worker log messages
\* looked at
MaxRequests == 2
MaxExits == 1
MaxLogs == 1

Pos(p, r, c, e) == [pattern |-> p, row |-> r, channel |-> c, element |-> e]

\* data.shift(): the i-th token, or undefined when the array is exhausted
Tok(data, i) == IF i <= Len(data) THEN data[i] ELSE Undefined

B2N(b) == IF b THEN 1 ELSE 0

Max2(a, b) == IF a >= b THEN a ELSE b
Min2(a, b) == IF a <= b THEN a ELSE b

RECURSIVE SeqMax(_)
SeqMax(s) == IF Len(s) = 1 THEN s[1] ELSE Max2(s[1], SeqMax(Tail(s)))

RECURSIVE SeqMin(_)
SeqMin(s) == IF Len(s) = 1 THEN s[1] ELSE Min2(s[1], SeqMin(Tail(s)))

----------------------------------------------------------------------------
(* Coordinate model *)

\* this.parent.channelInfo.length
NumChannels == Len(channelInfo)

\* this.parent.channelInfo[ch].elements.length
NumElements(ch) == Len(channelInfo[ch + 1])

RECURSIVE ColBase(_)
\* number of columns in the channels before ch
ColBase(ch) == IF ch = 0 THEN 0 ELSE ColBase(ch - 1) + NumElements(ch - 1)

TotalCols == ColBase(NumChannels)

\* this.parent.tab.matrix.matrixlen
matrixlen == Len(matrix)

TotalRows == matrixlen * patternLen

InGrid(p) ==
    /\ p.pattern \in 0 .. matrixlen - 1
    /\ p.row \in 0 .. patternLen - 1
    /\ p.channel \in 0 .. NumChannels - 1
    /\ p.element \in 0 .. NumElements(p.channel) - 1

\* the direction word of a shortcut as an offset
shortcutDirection(direction) ==
    CASE direction = "up"    -> [valid |-> TRUE, x |-> 0, y |-> -1]
      [] direction = "down"  -> [valid |-> TRUE, x |-> 0, y |-> 1]
      [] direction = "left"  -> [valid |-> TRUE, x |-> -1, y |-> 0]
      [] direction = "right" -> [valid |-> TRUE, x |-> 1, y |-> 0]
      [] OTHER               -> [valid |-> FALSE, x |-> 0, y |-> 0]

----------------------------------------------------------------------------
(* Selection manager: movement of one position *)

\* the channel that holds flattened column i
ChannelOfCol(i) ==
    CHOOSE ch \in 0 .. NumChannels - 1 :
        ColBase(ch) <= i /\ i < ColBase(ch) + NumElements(ch)

\* Move position p by x columns and ys/Scale rows.  (channel, element) and
\* (pattern, row) are each one flattened axis; with wrap the axis is
\* circular, without wrap the position is clamped at the outer bound and
\* the move reports "not moved".
\* position v on an axis of `total` cells: wrapped around, or clamped
OnAxis(v, total, wrap) ==
    IF wrap THEN v % total ELSE Max2(0, Min2(total - 1, v))

\* the position at flattened column cx and flattened row cy
Unflatten(cx, cy, ch) ==
    Pos(cy \div patternLen, cy % patternLen, ch, cx - ColBase(ch))

\* the move to the requested column nx and row ny
MoveTo(nx, ny, cx, cy, wrap) ==
    [pos   |-> Unflatten(cx, cy, ChannelOfCol(cx)),
     moved |-> wrap \/ (cx = nx /\ cy = ny)]

\* a move whose row axis is one row too long
MoveRequestLong(nx, ny, wrap) ==
    MoveTo(nx, ny, OnAxis(nx, TotalCols, wrap), OnAxis(ny, TotalRows + 1, wrap), wrap)

MoveRequest(nx, ny, wrap) ==
    MoveTo(nx, ny, OnAxis(nx, TotalCols, wrap), OnAxis(ny, TotalRows, wrap), wrap)

\* Move position p by x columns and ys/Scale rows.  (channel, element) and
\* (pattern, row) are each one flattened axis; with wrap the axis is
\* circular, without wrap the position is clamped at the outer bound and
\* the move reports "not moved".
moveSelection(p, x, ys, wrap) ==
    MoveRequest(ColBase(p.channel) + p.element + x,
                ((((p.pattern * patternLen) + p.row) * Scale) + ys + (Scale \div 2))
                    \div Scale,
                wrap)

\* the result of a handler: the selection it leaves and the value it returns
R(s, m, ret) == [single |-> s, multi |-> m, ret |-> ret]

MovedSingle(r, m) == R(r.pos, m, r.moved)

MovedSecond(r, s, m) == R(s, <<m[1], r.pos>>, r.moved)

\* selectionManager.moveSingle
moveSingle(s, m, x, ys, wrap) == MovedSingle(moveSelection(s, x, ys, wrap), m)

\* selectionManager.moveMulti: relocates the second stored endpoint
moveMulti(s, m, x, ys, wrap) ==
    IF m = NoMulti THEN R(s, m, FALSE)
    ELSE MovedSecond(moveSelection(m[2], x, ys, wrap), s, m)

\* selectionManager.extendMulti: moves the second stored endpoint, the
\* first one is the fixed boundary of the range
extendMulti(s, m, x, ys, wrap) ==
    IF m = NoMulti THEN R(s, m, FALSE)
    ELSE MovedSecond(moveSelection(m[2], x, ys, wrap), s, m)

\* selectionManager.clearMultiSelection; its result is the collaborator's
clearMultiSelection(s, m, res) == R(s, NoMulti, res)

----------------------------------------------------------------------------
(* Shortcut handler: helpers *)

\* handleMovementCheck that runs the callback whatever the direction word is
handleMovementCheckAlways(direction, r, unchanged) == r

\* handleMovementCheck: r, the result of the callback, for a valid direction,
\* else the unchanged state with the value false
handleMovementCheck(direction, r, unchanged) ==
    IF shortcutDirection(direction).valid THEN r ELSE unchanged

\* getSelectionTarget that enables wrap in range mode too
getSelectionTargetWrap(m) == [mode |-> m = NoMulti, wrap |-> TRUE]

\* getSelectionTarget: mode is TRUE when the target is the single selection,
\* otherwise the target is the second endpoint of the multi selection
getSelectionTarget(m) == [mode |-> m = NoMulti, wrap |-> m = NoMulti]

\* the move function getSelectionTarget returns, applied
targetFn(s, m, x, ys, wrap) ==
    IF getSelectionTarget(m).mode
    THEN moveSingle(s, m, x, ys, wrap)
    ELSE moveMulti(s, m, x, ys, wrap)

\* the selection with the target's row set to r
setTargetRow(s, m, r) ==
    IF getSelectionTarget(m).mode
    THEN R([s EXCEPT !.row = r], m, TRUE)
    ELSE R(s, <<m[1], [m[2] EXCEPT !.row = r]>>, TRUE)

\* checkMultiSelection that clones also when a range exists
checkMultiSelectionAlways(s, m) == <<s, s>>

\* checkMultiSelection: clone the single selection when no range exists
checkMultiSelection(s, m) == IF m = NoMulti THEN <<s, s>> ELSE m

\* offset of endpoint sel from the single selection (check in checkSelectAll)
checkOffset(sel, s) ==
    IF sel.channel # s.channel
    THEN sel.channel - s.channel
    ELSE sel.element - s.element

\* the conditions of checkSelectAll without the one on the rows
SelectAllIgnoredAnyRows(sl, top, left, soff0, soff1, channel) ==
    /\ \/ ~channel
       \/ /\ sl[left].element = 0
          /\ sl[1 - left].element = NumElements(sl[1 - left].channel) - 1
    /\ \/ soff0 = 0
       \/ soff1 = 0
       \/ (soff0 <= 0) # (soff1 <= 0)

\* checkSelectAll: FALSE when the shortcut is to be ignored
SelectAllIgnored(sl, top, left, soff0, soff1, channel) ==
    /\ sl[top].row = 0
    /\ sl[1 - top].row = patternLen - 1
    /\ \/ ~channel
       \/ /\ sl[left].element = 0
          /\ sl[1 - left].element = NumElements(sl[1 - left].channel) - 1
    /\ \/ soff0 = 0
       \/ soff1 = 0
       \/ (soff0 <= 0) # (soff1 <= 0)

\* checkSelectAll that ignores the shortcut only for a cursor strictly
\* between the endpoints
checkSelectAllStrict(s, m, channel) ==
    IF m = NoMulti THEN TRUE
    ELSE ~( /\ checkOffset(m[1], s) # 0
            /\ checkOffset(m[2], s) # 0
            /\ SelectAllIgnored([i \in {0, 1} |-> m[i + 1]],
                                B2N(m[1].row > m[2].row),
                                B2N(m[1].element > m[2].element),
                                checkOffset(m[1], s), checkOffset(m[2], s), channel))

checkSelectAll(s, m, channel) ==
    IF m = NoMulti THEN TRUE
    ELSE ~SelectAllIgnored([i \in {0, 1} |-> m[i + 1]],
                           B2N(m[1].row > m[2].row),
                           B2N(m[1].element > m[2].element),
                           checkOffset(m[1], s), checkOffset(m[2], s), channel)

----------------------------------------------------------------------------
(* Shortcut handler: the `sel` sub-commands *)

selMove(s, m, pos) ==
    targetFn(s, m, pos.x, pos.y * Scale, getSelectionTarget(m).wrap)


\* extend that clones the single selection without looking for a range
selExtendReclone(s, m, pos) ==
    extendMulti(s, <<s, s>>, pos.x, pos.y * Scale, FALSE)

selExtend(s, m, pos) ==
    extendMulti(s, checkMultiSelection(s, m), pos.x, pos.y * Scale, FALSE)

selScroll(s, m, pos) ==
    targetFn(s, m, pos.x * 4, pos.y * 4 * Scale, getSelectionTarget(m).wrap)

selScrollExtend(s, m, pos) ==
    extendMulti(s, checkMultiSelection(s, m), pos.x * 4, pos.y * 4 * Scale, FALSE)

\* move in movechannel: step sel.channel by x, FALSE when already at the edge
moveChannelOf(sel, x, wrap) ==
    IF ~wrap /\ (IF x < 0 THEN sel.channel <= 0 ELSE sel.channel >= NumChannels - 1)
    THEN [sel |-> sel, ok |-> FALSE]
    ELSE [sel |-> [sel EXCEPT !.channel = (sel.channel + x + NumChannels) % NumChannels],
          ok  |-> TRUE]

\* the field movechannel compares the endpoints by: element when both are in
\* the same channel, else channel
mdOf(q, sameCh) == IF sameCh THEN q.element ELSE q.channel

\* the widening that leaves the range as it is
AlignRangeNone(sl, l) == sl

\* movechannel, range in one channel that is not the whole channel: cover it
AlignRange(sl, l) ==
    [sl EXCEPT ![l].element = NumElements(sl[l].channel) - 1,
               ![1 - l].element = 0]

\* the step of endpoint i that leaves the other endpoint in its channel
StepRangeExtend(sl, i, mv) ==
    IF mv.ok
    THEN [sl EXCEPT ![i] = [mv.sel EXCEPT !.element = NumElements(mv.sel.channel) - 1],
                    ![1 - i] = [sl[1 - i] EXCEPT !.element = 0]]
    ELSE sl

\* movechannel: endpoint i was stepped (mv); align both endpoints to its channel
StepRange(sl, i, mv) ==
    IF mv.ok
    THEN [sl EXCEPT ![i] = [mv.sel EXCEPT !.element = NumElements(mv.sel.channel) - 1],
                    ![1 - i] = [sl[1 - i] EXCEPT !.element = 0,
                                                 !.channel = mv.sel.channel]]
    ELSE sl

\* the range step without the widening of a partly selected channel
RangeStepNoAlign(sl, sameCh, l, i, x) ==
    StepRange(sl, i, moveChannelOf(sl[i], x, FALSE))

RangeStep(sl, sameCh, l, i, x) ==
    IF sameCh /\ (sl[1 - l].element # 0
                  \/ sl[l].element # NumElements(sl[l].channel) - 1)
    THEN AlignRange(sl, l)
    ELSE StepRange(sl, i, moveChannelOf(sl[i], x, FALSE))

RangeStepFrom(sl, sameCh, l, x) ==
    RangeStep(sl, sameCh, l, IF x > 0 THEN 1 - l ELSE l, x)

\* the endpoints of the range after the range-mode part of movechannel
moveChannelRange(m, x) ==
    RangeStepFrom([i \in {0, 1} |-> m[i + 1]], m[1].channel = m[2].channel,
                  B2N(mdOf(m[1], m[1].channel = m[2].channel)
                        < mdOf(m[2], m[1].channel = m[2].channel)), x)

\* the endpoint movechannel syncs the single selection to
moveChannelTarget(sl, x, sameCh) ==
    B2N((x > 0) # (mdOf(sl[0], sameCh) > mdOf(sl[1], sameCh)))

WithSelected(r, ch) ==
    [single |-> r.single, multi |-> r.multi, ret |-> r.ret, selectedChannel |-> ch]

\* movechannel, range mode: sync the single selection and the selected
\* channel to endpoint target, then fn(0, 0, wrap)
RangeMoved(s, sl, target, wrap) ==
    WithSelected(targetFn([s EXCEPT !.channel = sl[target].channel,
                                    !.element = sl[target].element],
                          <<sl[0], sl[1]>>, 0, 0, wrap),
                 sl[target].channel)

selMoveChannelRange(s, m, x, sl) ==
    RangeMoved(s, sl, moveChannelTarget(sl, x, m[1].channel = m[2].channel),
               getSelectionTarget(m).wrap)

\* movechannel that leaves the element of the cursor as it is
selMoveChannelKeepElement(s, m, pos) ==
    IF pos.x = 0 THEN R(s, m, FALSE)
    ELSE IF getSelectionTarget(m).mode
    THEN targetFn(moveChannelOf(s, pos.x, TRUE).sel, m, 0, 0,
                  getSelectionTarget(m).wrap)
    ELSE selMoveChannelRange(s, m, pos.x, moveChannelRange(m, pos.x))

selMoveChannel(s, m, pos) ==
    IF pos.x = 0 THEN R(s, m, FALSE)
    ELSE IF getSelectionTarget(m).mode
    THEN targetFn(moveChannelOf([s EXCEPT !.element = 0], pos.x, TRUE).sel, m, 0, 0,
                  getSelectionTarget(m).wrap)
    ELSE selMoveChannelRange(s, m, pos.x, moveChannelRange(m, pos.x))

\* fn(x, y, wrap) applied to the selection t
MoveTarget(t, x, ys, wrap) == targetFn(t.single, t.multi, x, ys, wrap)

selRowTop(s, m) ==
    MoveTarget(setTargetRow(s, m, 0), 0, -1, getSelectionTarget(m).wrap)

selRowBottom(s, m) ==
    MoveTarget(setTargetRow(s, m, patternLen - 1), 0, 1, getSelectionTarget(m).wrap)

\* extendtop, extendbottom: endpoint sl[t] and the single selection go to row
ExtendRow(s, sl, t, row) ==
    R([s EXCEPT !.row = row], [sl EXCEPT ![t + 1].row = row], TRUE)

ExtendTopOf(s, sl) == ExtendRow(s, sl, B2N(sl[1].row > sl[2].row), 0)

\* extendbottom that picks its endpoint with the comparison of extendtop
ExtendBottomOfSmaller(s, sl) ==
    ExtendRow(s, sl, B2N(sl[1].row > sl[2].row), patternLen - 1)

ExtendBottomOf(s, sl) == ExtendRow(s, sl, B2N(sl[1].row < sl[2].row), patternLen - 1)

\* extendtop that clones the single selection without looking for a range
selExtendTopReclone(s, m) == ExtendTopOf(s, <<s, s>>)

selExtendTop(s, m) == ExtendTopOf(s, checkMultiSelection(s, m))

selExtendBottom(s, m) == ExtendBottomOf(s, checkMultiSelection(s, m))

\* movepattern that moves by one row instead of one pattern
selMovePatternRow(s, m, pos) ==
    IF pos.y = 0 THEN R(s, m, FALSE)
    ELSE moveSingle(s, NoMulti, 0, pos.y * Scale, TRUE)

selMovePattern(s, m, pos) ==
    IF pos.y = 0 THEN R(s, m, FALSE)
    ELSE moveSingle(s, NoMulti, 0, pos.y * patternLen * Scale, TRUE)

\* loadOff that lets a target cross the end of the pattern
loadOffNoCap(hilite, row, y) ==
    LET or0(v) == IF v = 0 THEN -hilite ELSE v
        base   == IF y < 0 THEN 0 ELSE hilite
        target == or0(base - (row % hilite))
    IN  IF target < -row THEN or0(base - (patternLen % hilite))
        ELSE target

\* loadOff that keeps a target above row 0 as it is
loadOffKeep(hilite, row, y) ==
    LET or0(v) == IF v = 0 THEN -hilite ELSE v
        base   == IF y < 0 THEN 0 ELSE hilite
        target == or0(base - (row % hilite))
    IN  IF target >= patternLen - row THEN patternLen - row
        ELSE target

\* loadOff in movehighlight: the row offset to the next row highlighted by hilite
loadOff(hilite, row, y) ==
    LET or0(v) == IF v = 0 THEN -hilite ELSE v
        base   == IF y < 0 THEN 0 ELSE hilite
        target == or0(base - (row % hilite))
    IN  IF target >= patternLen - row THEN patternLen - row
        ELSE IF target < -row THEN or0(base - (patternLen % hilite))
        ELSE target

\* the offsets movehighlight collects from the highlights below patternLen
RECURSIVE highlightOffsets(_, _, _)
highlightOffsets(hs, row, y) ==
    IF hs = <<>> THEN <<>>
    ELSE IF Head(hs) < patternLen
    THEN <<loadOff(Head(hs), row, y)>> \o highlightOffsets(Tail(hs), row, y)
    ELSE highlightOffsets(Tail(hs), row, y)

\* the row delta movehighlight hands to moveSingle
highlightDelta(row, y) ==
    LET offs == highlightOffsets(rowHighlights, row, y)
        yoff == IF offs = <<>>
                THEN <<(IF y < 0 THEN 0 ELSE patternLen) - row>>
                ELSE offs
    IN  IF y < 0 THEN SeqMax(yoff) ELSE SeqMin(yoff)

\* movehighlight that forgets to remove the multi selection
selMoveHighlightKeep(s, m, pos) ==
    IF pos.y = 0 THEN R(s, m, FALSE)
    ELSE moveSingle(s, m, 0, highlightDelta(s.row, pos.y) * Scale, TRUE)

selMoveHighlight(s, m, pos) ==
    IF pos.y = 0 THEN R(s, m, FALSE)
    ELSE moveSingle(s, NoMulti, 0, highlightDelta(s.row, pos.y) * Scale, TRUE)

selPatternTop(s, m) ==
    moveSingle([s EXCEPT !.row = 0, !.pattern = 0], NoMulti, 0, -1, TRUE)

selPatternBottom(s, m) ==
    moveSingle([s EXCEPT !.row = patternLen - 1, !.pattern = matrixlen - 1],
               NoMulti, 0, 1, TRUE)

selFullColumn(s, m) ==
    IF ~checkSelectAll(s, m, FALSE) THEN R(s, m, FALSE)
    ELSE R(s, <<[s EXCEPT !.row = 0], [s EXCEPT !.row = patternLen - 1]>>, TRUE)

selFullChannel(s, m) ==
    IF ~checkSelectAll(s, m, TRUE) THEN R(s, m, FALSE)
    ELSE R(s, <<[s EXCEPT !.row = 0, !.element = 0],
                [s EXCEPT !.row = patternLen - 1,
                          !.element = NumElements(s.channel) - 1]>>, TRUE)

\* fullpattern that reports a no-op when the range is the full pattern already
selFullPatternToggle(s, m) ==
    IF m = <<Pos(s.pattern, 0, 0, 0),
             Pos(s.pattern, patternLen - 1, NumChannels - 1,
                 NumElements(NumChannels - 1) - 1)>>
    THEN R(s, m, FALSE)
    ELSE R(s, <<Pos(s.pattern, 0, 0, 0),
                Pos(s.pattern, patternLen - 1, NumChannels - 1,
                    NumElements(NumChannels - 1) - 1)>>, TRUE)

selFullPattern(s, m) ==
    R(s, <<Pos(s.pattern, 0, 0, 0),
           Pos(s.pattern, patternLen - 1, NumChannels - 1,
               NumElements(NumChannels - 1) - 1)>>, TRUE)

selDeselect(s, m, res) == clearMultiSelection(s, m, res)

\* handleSelectionShortcut with the direction-taking callback's result r
selChecked(direction, r, s, m) == handleMovementCheck(direction, r, R(s, m, FALSE))

\* handleSelectionShortcut: data holds the tokens after "sel"; res is the
\* value clearMultiSelection answers to deselect
handleSelectionShortcut(data, s, m, res) ==
    LET sub == Tok(data, 1)
        dir == Tok(data, 2)
    IN  CASE sub = "move" ->
               selChecked(dir, selMove(s, m, shortcutDirection(dir)), s, m)
          [] sub = "extend" ->
               selChecked(dir, selExtend(s, m, shortcutDirection(dir)), s, m)
          [] sub = "scroll" ->
               selChecked(dir, selScroll(s, m, shortcutDirection(dir)), s, m)
          [] sub = "scrollextend" ->
               selChecked(dir, selScrollExtend(s, m, shortcutDirection(dir)), s, m)
          [] sub = "movechannel" ->
               selChecked(dir, selMoveChannel(s, m, shortcutDirection(dir)), s, m)
          [] sub = "rowtop"        -> selRowTop(s, m)
          [] sub = "rowbottom"     -> selRowBottom(s, m)
          [] sub = "extendtop"     -> selExtendTop(s, m)
          [] sub = "extendbottom"  -> selExtendBottom(s, m)
          [] sub = "movepattern" ->
               selChecked(dir, selMovePattern(s, m, shortcutDirection(dir)), s, m)
          [] sub = "movehighlight" ->
               selChecked(dir, selMoveHighlight(s, m, shortcutDirection(dir)), s, m)
          [] sub = "patterntop"    -> selPatternTop(s, m)
          [] sub = "patternbottom" -> selPatternBottom(s, m)
          [] sub = "fullcolumn"    -> selFullColumn(s, m)
          [] sub = "fullchannel"   -> selFullChannel(s, m)
          [] sub = "fullpattern"   -> selFullPattern(s, m)
          [] sub = "deselect"      -> selDeselect(s, m, res)
          [] OTHER                 -> R(s, m, FALSE)



----------------------------------------------------------------------------
(* Shortcut handler: the `chfx` group *)

\* parent.setChannelEffects: the channel's effects count becomes fx
setChannelEffects(chs, fx, ch) == [chs EXCEPT ![ch + 1].effects = fx]

\* the callback that does not check the EFFECTS feature of the channel
chfxEffectsAnyChannel(pos, s, chs) ==
    LET ch  == s.channel
        fx  == Max2(1, Min2(MaxEffects, chs[ch + 1].effects - pos.y))
    IN  IF pos.y # 0 /\ chs[ch + 1].effects # fx
        THEN [channels |-> setChannelEffects(chs, fx, ch), ret |-> TRUE]
        ELSE [channels |-> chs, ret |-> FALSE]

\* the callback of handleChannelEffectsShortcut for offset pos
chfxEffects(pos, s, chs) ==
    LET ch  == s.channel
        fx  == Max2(1, Min2(MaxEffects, chs[ch + 1].effects - pos.y))
    IN  IF pos.y # 0 /\ "EFFECTS" \in chs[ch + 1].features
           /\ chs[ch + 1].effects # fx
        THEN [channels |-> setChannelEffects(chs, fx, ch), ret |-> TRUE]
        ELSE [channels |-> chs, ret |-> FALSE]

\* handleChannelEffectsShortcut: data holds the tokens after "chfx"
handleChannelEffectsShortcut(data, s, chs) ==
    handleMovementCheck(Tok(data, 1),
                        chfxEffects(shortcutDirection(Tok(data, 1)), s, chs),
                        [channels |-> chs, ret |-> FALSE])

----------------------------------------------------------------------------
(* Note table of the driver *)

\* the frequency the PSG table holds for a note: a number, or undefined
PSGFrequency(note) ==
    LET xo == (OctaveSize * 7) + NoteC0
    IN  IF note < NoteC0 THEN "undefined"
        ELSE IF note >= xo
        THEN (IF note - xo < 12 THEN "number" ELSE "undefined")
        ELSE (IF note - NoteC0 + (OctaveSize * 2) < FrequencyCount
              THEN "number" ELSE "undefined")

\* the frequency the FM table holds for a note: the rounding of a missing
\* table entry is NaN
FMFrequency(note) ==
    IF note < NoteC0
    THEN (IF note - NoteC0 + (OctaveSize * 4) >= 0 THEN "number" ELSE "NaN")
    ELSE IF note >= NoteC0 + (OctaveSize * 8) THEN "undefined"
    ELSE "number"

\* noteGen: the frequency of table entry n, given the frequency freq the
\* chip function computes for n; "undefined" also when n has no entry
noteGen(freq, n) ==
    CASE n = 0 \/ n = 1               -> "number"
      [] n = 2 \/ n = 3               -> "undefined"
      [] n >= NoteFirst /\ n < NoteLast -> freq
      [] OTHER                        -> "undefined"

\* notes(type): the frequency of entry `note` of the driver's table for a
\* channel type
DriverFrequency(type, note) ==
    CASE type = "YM2612FM"  -> noteGen(FMFrequency(note), note)
      [] type = "YM7101PSG" -> noteGen(PSGFrequency(note), note)
      [] OTHER              -> "undefined"

\* (await tab.getNotes(type)).notes[note]?.frequency: the driver's entry, or
\* NaN where the table the tab answers holds NaN
NoteFrequency(type, note) ==
    IF note \in nanNotes THEN "NaN" ELSE DriverFrequency(type, note)

----------------------------------------------------------------------------
(* Shortcut handler: the `note` group *)

NoteNames == <<"C", "C#", "D", "D#", "E", "F", "F#", "G", "G#", "A", "A#", "B">>

\* String.toUpperCase on the note names in use
toUpperCase(tok) ==
    CASE tok = "c" -> "C" [] tok = "c#" -> "C#" [] tok = "d" -> "D"
      [] tok = "d#" -> "D#" [] tok = "e" -> "E" [] tok = "f" -> "F"
      [] tok = "f#" -> "F#" [] tok = "g" -> "G" [] tok = "g#" -> "G#"
      [] tok = "a" -> "A" [] tok = "a#" -> "A#" [] tok = "b" -> "B"
      [] OTHER -> tok

\* String.toLowerCase on the note group names in use
toLowerCase(tok) ==
    CASE tok = "REST" -> "rest" [] tok = "Rest" -> "rest"
      [] tok = "CUT" -> "cut" [] tok = "Cut" -> "cut"
      [] tok = "OCTAVE0" -> "octave0" [] tok = "Octave0" -> "octave0"
      [] tok = "OCTAVE1" -> "octave1" [] tok = "Octave1" -> "octave1"
      [] tok = "OCTAVE2" -> "octave2" [] tok = "Octave2" -> "octave2"
      [] OTHER -> tok

\* getCurrentElementId
getCurrentElementId(p) == channelInfo[p.single.channel + 1][p.single.element + 1]

\* getCurrentPatternCell: the cell id <<channel, real pattern, row>>, or <<>>
getCurrentPatternCell(p) ==
    LET ch == p.single.channel
        rp == matrix[p.single.pattern + 1][ch + 1]
        id == <<ch, rp, p.single.row>>
    IN  IF id \in DOMAIN p.cells THEN id ELSE <<>>

\* triggerNote that places the note before looking at its frequency
triggerNoteRecordFirst(p, note, velocity) ==
    LET freq == NoteFrequency(channels[p.selectedChannel + 1].type, note)
        ev   == IF freq = "number"
                THEN <<[type |-> "PianoNoteOn", channel |-> channels[p.selectedChannel + 1].id,
                        note |-> note, velocity |-> velocity]>>
                ELSE <<>>
        cd   == getCurrentPatternCell(p)
    IN  IF recordMode /\ getCurrentElementId(p) = 0 /\ cd # <<>>
        THEN [p |-> [p EXCEPT !.cells[cd] = note,
                              !.edited = @ \cup {<<cd[1], cd[2]>>},
                              !.dirty = TRUE],
              ret |-> freq # "undefined", events |-> ev]
        ELSE [p |-> p, ret |-> freq # "undefined", events |-> ev]

\* triggerNote that places the note whatever column the cursor is on
triggerNoteAnyColumn(p, note, velocity) ==
    LET freq == NoteFrequency(channels[p.selectedChannel + 1].type, note)
        ev   == IF freq = "number"
                THEN <<[type |-> "PianoNoteOn", channel |-> channels[p.selectedChannel + 1].id,
                        note |-> note, velocity |-> velocity]>>
                ELSE <<>>
        cd   == getCurrentPatternCell(p)
    IN  IF freq = "undefined" THEN [p |-> p, ret |-> FALSE, events |-> <<>>]
        ELSE IF recordMode /\ cd # <<>>
        THEN [p |-> [p EXCEPT !.cells[cd] = note,
                              !.edited = @ \cup {<<cd[1], cd[2]>>},
                              !.dirty = TRUE],
              ret |-> TRUE, events |-> ev]
        ELSE [p |-> p, ret |-> TRUE, events |-> ev]

\* triggerNote(note, velocity) on program state p
triggerNote(p, note, velocity) ==
    LET freq == NoteFrequency(channels[p.selectedChannel + 1].type, note)
        ev   == IF freq = "number"
                THEN <<[type |-> "PianoNoteOn", channel |-> channels[p.selectedChannel + 1].id,
                        note |-> note, velocity |-> velocity]>>
                ELSE <<>>
        cd   == getCurrentPatternCell(p)
    IN  IF freq = "undefined" THEN [p |-> p, ret |-> FALSE, events |-> <<>>]
        ELSE IF recordMode /\ getCurrentElementId(p) = 0 /\ cd # <<>>
        THEN [p |-> [p EXCEPT !.cells[cd] = note,
                              !.edited = @ \cup {<<cd[1], cd[2]>>},
                              !.dirty = TRUE],
              ret |-> TRUE, events |-> ev]
        ELSE [p |-> p, ret |-> TRUE, events |-> ev]

\* releaseNote(note, velocity) on program state p
releaseNote(p, note, velocity) ==
    LET freq == NoteFrequency(channels[p.selectedChannel + 1].type, note)
    IN  IF freq = "undefined" THEN [p |-> p, ret |-> FALSE, events |-> <<>>]
        ELSE [p |-> p, ret |-> TRUE,
              events |-> IF freq = "number"
                         THEN <<[type |-> "PianoNoteOff",
                                 channel |-> channels[p.selectedChannel + 1].id,
                                 note |-> note, velocity |-> velocity]>>
                         ELSE <<>>]

\* note in handleNoteShortcut that releases the note the key has now
noteKeyCurrent(p, oct, note, state) ==
    LET name == <<oct, note>>
        n    == NoteC0 + note + ((octave + oct) * OctaveSize)
    IN  IF state
        THEN LET r == triggerNote(p, n, 1)
             IN  [p |-> [r.p EXCEPT !.scmap = [k \in DOMAIN @ \cup {name} |->
                                                IF k = name THEN n ELSE @[k]]],
                  ret |-> TRUE, events |-> r.events]
        ELSE IF name \in DOMAIN p.scmap /\ p.scmap[name] # 0
        THEN LET r == releaseNote(p, n, 0)
             IN  [p |-> [r.p EXCEPT !.scmap = [k \in DOMAIN @ \ {name} |-> @[k]]],
                  ret |-> TRUE, events |-> r.events]
        ELSE [p |-> p, ret |-> TRUE, events |-> <<>>]

\* note in handleNoteShortcut: key `note` of octave group `oct` pressed or released
noteKey(p, oct, note, state) ==
    LET name == <<oct, note>>
        n    == NoteC0 + note + ((octave + oct) * OctaveSize)
    IN  IF state
        THEN LET r == triggerNote(p, n, 1)
             IN  [p |-> [r.p EXCEPT !.scmap = [k \in DOMAIN @ \cup {name} |->
                                                IF k = name THEN n ELSE @[k]]],
                  ret |-> TRUE, events |-> r.events]
        ELSE IF name \in DOMAIN p.scmap /\ p.scmap[name] # 0
        THEN LET r == releaseNote(p, p.scmap[name], 0)
             IN  [p |-> [r.p EXCEPT !.scmap = [k \in DOMAIN @ \ {name} |-> @[k]]],
                  ret |-> TRUE, events |-> r.events]
        ELSE [p |-> p, ret |-> TRUE, events |-> <<>>]

\* octave in handleNoteShortcut: name is the note name token
octaveKey(p, name, oct, state) ==
    LET up == toUpperCase(name)
    IN  IF \E i \in 1 .. Len(NoteNames) : NoteNames[i] = up
        THEN noteKey(p, oct, (CHOOSE i \in 1 .. Len(NoteNames) : NoteNames[i] = up) - 1, state)
        ELSE [p |-> p, ret |-> FALSE, events |-> <<>>]

\* specialNote in handleNoteShortcut
specialNote(p, note, state) ==
    IF state THEN triggerNote(p, note, 1) ELSE releaseNote(p, note, 0)

\* handleNoteShortcut: data holds the tokens after "note"
handleNoteShortcut(data, state, p) ==
    LET group == toLowerCase(Tok(data, 1))
    IN  CASE group = "rest"    -> specialNote(p, NoteRest, state)
          [] group = "cut"     -> specialNote(p, NoteCut, state)
          [] group = "octave0" -> octaveKey(p, Tok(data, 2), 0, state)
          [] group = "octave1" -> octaveKey(p, Tok(data, 2), 1, state)
          [] group = "octave2" -> octaveKey(p, Tok(data, 2), 2, state)
          [] OTHER             -> [p |-> p, ret |-> FALSE, events |-> <<>>]

----------------------------------------------------------------------------
(* Shortcut handler: entry point *)

\* the mutable program state the handlers work on
Program ==
    [single |-> single, multi |-> multi, channels |-> channels,
     selectedChannel |-> selectedChannel, scmap |-> scmap, cells |-> cells,
     edited |-> edited, dirty |-> dirty]

\* the program state after a sel command with result r
MergeSelection(p, r) ==
    [p |-> [p EXCEPT !.single = r.single, !.multi = r.multi,
                     !.selectedChannel = IF "selectedChannel" \in DOMAIN r
                                         THEN r.selectedChannel ELSE @],
     ret |-> r.ret, events |-> <<>>]

\* the program state after a chfx command with result r
MergeChannels(p, r) ==
    [p |-> [p EXCEPT !.channels = r.channels], ret |-> r.ret, events |-> <<>>]

\* receiveShortcut(data, e, state) on program state p; res is the value
\* clearMultiSelection answers
receiveShortcut(data, state, p, res) ==
    LET group == Tok(data, 1)
        rest  == IF data = <<>> THEN <<>> ELSE Tail(data)
    IN  CASE group = "sel" ->
               MergeSelection(p, handleSelectionShortcut(rest, p.single, p.multi, res))
          [] group = "chfx" ->
               MergeChannels(p, handleChannelEffectsShortcut(rest, p.single, p.channels))
          [] group = "note" -> handleNoteShortcut(rest, state, p)
          [] OTHER -> [p |-> p, ret |-> FALSE, events |-> <<>>]


----------------------------------------------------------------------------
(* Commands *)

Directions == {"up", "down", "left", "right"}

\* the sel sub-commands that take a direction word
DirectionCommands ==
    {"move", "extend", "scroll", "scrollextend", "movechannel", "movepattern",
     "movehighlight"}

\* token sequences with a token that is not recognized at its level
UnrecognizedCommands ==
    {<<>>, <<"layout">>, <<"Sel", "deselect">>, <<"sel">>, <<"sel", "select">>,
     <<"sel", "move">>, <<"sel", "extend">>, <<"chfx">>, <<"chfx", "more">>,
     <<"note">>, <<"note", "octave3", "C">>, <<"note", "octave0">>,
     <<"note", "octave1", "H">>}

\* the cell ids <<channel, real pattern, row>> of a matrix
CellIds(mx, len) ==
    {<<ch, mx[pt][ch + 1], row>> :
        ch \in 0 .. Len(mx[1]) - 1, pt \in 1 .. Len(mx), row \in 0 .. len - 1}

----------------------------------------------------------------------------
(* Actions *)

\* the state outside the handler object after construction: no MIDI key
\* translated, no note sustained, nothing written to the chip, no call in flight
\* no Exit event is being handled
NoExit ==
    [pc |-> "idle", asked |-> FALSE, answer |-> "none", save |-> "none",
     settled |-> "none", value |-> FALSE, cancelled |-> FALSE]

\* the main process after create() found the audio script: the worker runs,
\* holds the listener of create and was posted its config
NoIpc ==
    [rpc |-> FALSE, worker |-> "running", windows |-> "open",
     listeners |-> <<[id |-> 0, kind |-> "create", fn |-> "", req |-> 0]>>,
     inbox |-> <<[code |-> "config", fn |-> "", data |-> 0]>>, outbox |-> <<>>,
     replies |-> <<>>, ids |-> 1, requests |-> 0, exits |-> 0, logs |-> 0,
     acked |-> FALSE, answered |-> {}]

NoIpcCall == [name |-> "none", arg |-> FALSE, pre |-> <<>>]

ExtInit ==
    /\ keys = [k \in {} |-> 0]
    /\ pianoNotes = [c \in {} |-> 0]
    /\ chip = <<>>
    /\ tasks = <<>>
    /\ history = [down |-> <<>>, midi |-> <<>>]
    /\ exit = NoExit
    /\ ipc = NoIpc
    /\ ipcCall = NoIpcCall

\* one call of receiveShortcut, run to completion
Commit(data, state, r) ==
    /\ single' = r.p.single
    /\ multi' = r.p.multi
    /\ channels' = r.p.channels
    /\ selectedChannel' = r.p.selectedChannel
    /\ scmap' = r.p.scmap
    /\ cells' = r.p.cells
    /\ edited' = r.p.edited
    /\ dirty' = r.p.dirty
    /\ call' = [active |-> TRUE, cmd |-> data, state |-> state,
                pre |-> Program, ret |-> r.ret, events |-> r.events]

\* no call of receiveShortcut is in progress
Idle == call = NoCall

Dispatch(data, state, res) ==
    /\ Commit(data, state, receiveShortcut(data, state, Program, res))
    /\ UNCHANGED <<grid, ext, sys>>

\* the promise of the call resolves and the caller takes its result
Resolve ==
    /\ call # NoCall
    /\ call' = NoCall
    /\ UNCHANGED <<single, multi, grid, channels, selectedChannel, scmap, cells,
                   edited, dirty, ext, sys>>

SelMove ==
    /\ Idle
    /\ \E d \in Directions : Dispatch(<<"sel", "move", d>>, TRUE, FALSE)

SelExtend ==
    /\ Idle
    /\ \E d \in Directions : Dispatch(<<"sel", "extend", d>>, TRUE, FALSE)

SelScroll ==
    /\ Idle
    /\ \E d \in Directions : Dispatch(<<"sel", "scroll", d>>, TRUE, FALSE)

SelScrollExtend ==
    /\ Idle
    /\ \E d \in Directions : Dispatch(<<"sel", "scrollextend", d>>, TRUE, FALSE)

SelMoveChannel ==
    /\ Idle
    /\ \E d \in Directions : Dispatch(<<"sel", "movechannel", d>>, TRUE, FALSE)

SelRowTop ==
    /\ Idle
    /\ Dispatch(<<"sel", "rowtop">>, TRUE, FALSE)

SelRowBottom ==
    /\ Idle
    /\ Dispatch(<<"sel", "rowbottom">>, TRUE, FALSE)

SelExtendTop ==
    /\ Idle
    /\ Dispatch(<<"sel", "extendtop">>, TRUE, FALSE)

SelExtendBottom ==
    /\ Idle
    /\ Dispatch(<<"sel", "extendbottom">>, TRUE, FALSE)

SelMovePattern ==
    /\ Idle
    /\ \E d \in Directions : Dispatch(<<"sel", "movepattern", d>>, TRUE, FALSE)

SelMoveHighlight ==
    /\ Idle
    /\ \E d \in Directions : Dispatch(<<"sel", "movehighlight", d>>, TRUE, FALSE)

SelPatternTop ==
    /\ Idle
    /\ Dispatch(<<"sel", "patterntop">>, TRUE, FALSE)

SelPatternBottom ==
    /\ Idle
    /\ Dispatch(<<"sel", "patternbottom">>, TRUE, FALSE)

SelFullColumn ==
    /\ Idle
    /\ Dispatch(<<"sel", "fullcolumn">>, TRUE, FALSE)

SelFullChannel ==
    /\ Idle
    /\ Dispatch(<<"sel", "fullchannel">>, TRUE, FALSE)

SelFullPattern ==
    /\ Idle
    /\ Dispatch(<<"sel", "fullpattern">>, TRUE, FALSE)

SelDeselect ==
    /\ Idle
    /\ \E res \in BOOLEAN : Dispatch(<<"sel", "deselect">>, TRUE, res)

\* a direction command whose direction word is not a direction
InvalidDirection ==
    /\ Idle
    /\ \E c \in DirectionCommands : Dispatch(<<"sel", c, "forward">>, TRUE, FALSE)

Unrecognized ==
    /\ Idle
    /\ \E data \in UnrecognizedCommands :
          \E state \in (IF Tok(data, 1) = "note" THEN BOOLEAN ELSE {TRUE}) :
             Dispatch(data, state, FALSE)

----------------------------------------------------------------------------
(* Navigation specification: the sel commands on the navigation grid *)

Init ==
    /\ single = Pos(0, 0, 0, 0)
    /\ multi = NoMulti
    /\ patternLen = NavPatternLen
    /\ matrix = NavMatrix
    /\ channelInfo = NavChannelInfo
    /\ rowHighlights = NavRowHighlights
    /\ channels = <<[type |-> "YM2612FM", id |-> 0, features |-> {"EFFECTS"}, effects |-> 1],
                    [type |-> "YM2612FM", id |-> 1, features |-> {}, effects |-> 1],
                    [type |-> "YM7101PSG", id |-> 6, features |-> {"EFFECTS"}, effects |-> 1]>>
    /\ selectedChannel = 0
    /\ octave = 0
    /\ recordMode = FALSE
    /\ scmap = [k \in {} |-> 0]
    /\ cells = [c \in CellIds(NavMatrix, NavPatternLen) |-> 0]
    /\ edited = {}
    /\ dirty = FALSE
    /\ nanNotes = {}
    /\ ExtInit
    /\ call = NoCall

Next ==
    \/ SelMove
    \/ SelExtend
    \/ SelScroll
    \/ SelScrollExtend
    \/ SelMoveChannel
    \/ SelRowTop
    \/ SelRowBottom
    \/ SelExtendTop
    \/ SelExtendBottom
    \/ SelMovePattern
    \/ SelMoveHighlight
    \/ SelPatternTop
    \/ SelPatternBottom
    \/ SelFullColumn
    \/ SelFullChannel
    \/ SelFullPattern
    \/ SelDeselect
    \/ InvalidDirection
    \/ Resolve

Spec == Init /\ [][Next]_vars

----------------------------------------------------------------------------
(* Specification of all command groups, on a grid of one channel *)

ChfxAdjust ==
    /\ Idle
    /\ \E d \in Directions : Dispatch(<<"chfx", d>>, TRUE, FALSE)

NoteKey ==
    /\ Idle
    /\ \E g \in {"octave0", "OCTAVE1"}, state \in BOOLEAN :
          Dispatch(<<"note", g, "c#">>, state, FALSE)

NoteSpecial ==
    /\ Idle
    /\ \E g \in {"rest", "Cut"}, state \in BOOLEAN :
          Dispatch(<<"note", g>>, state, FALSE)

InitAll ==
    /\ single = Pos(0, 0, 0, 0)
    /\ multi = NoMulti
    /\ patternLen = AllPatternLen
    /\ matrix = AllMatrix
    /\ channelInfo = AllChannelInfo
    /\ rowHighlights = AllRowHighlights
    /\ channels = <<[type |-> "YM2612FM", id |-> 0, features |-> {"EFFECTS"}, effects |-> 1]>>
    /\ selectedChannel = 0
    /\ octave = 0
    /\ recordMode \in BOOLEAN
    /\ scmap = [k \in {} |-> 0]
    /\ cells = [c \in CellIds(AllMatrix, AllPatternLen) |-> 0]
    /\ edited = {}
    /\ dirty = FALSE
    /\ nanNotes = {}
    /\ ExtInit
    /\ call = NoCall

NextAll ==
    \/ Next
    \/ ChfxAdjust
    \/ NoteKey
    \/ NoteSpecial
    \/ Unrecognized

SpecAll == InitAll /\ [][NextAll]_vars

----------------------------------------------------------------------------
(* Highlight specification: cursor movement on a grid of one column, for
   each of the highlight interval lists *)

InitHi ==
    /\ single = Pos(0, 0, 0, 0)
    /\ multi = NoMulti
    /\ patternLen = HiPatternLen
    /\ matrix = HiMatrix
    /\ channelInfo = HiChannelInfo
    /\ rowHighlights \in HiRowHighlights
    /\ channels = <<[type |-> "YM2612FM", id |-> 0, features |-> {"EFFECTS"}, effects |-> 1]>>
    /\ selectedChannel = 0
    /\ octave = 0
    /\ recordMode = FALSE
    /\ scmap = [k \in {} |-> 0]
    /\ cells = [c \in CellIds(HiMatrix, HiPatternLen) |-> 0]
    /\ edited = {}
    /\ dirty = FALSE
    /\ nanNotes = {}
    /\ ExtInit
    /\ call = NoCall

NextHi ==
    \/ SelMove
    \/ SelExtend
    \/ SelMoveHighlight
    \/ Resolve

SpecHi == InitHi /\ [][NextHi]_vars

----------------------------------------------------------------------------
(* MIDI listeners *)

\* a function with the value v at key k
Put(f, k, v) == [x \in DOMAIN f \cup {k} |-> IF x = k THEN v ELSE f[x]]

\* a function without the key k
Drop(f, k) == [x \in DOMAIN f \ {k} |-> f[x]]

\* getRelativeNote(offset)
getRelativeNote(offset) == ((octave + 1) * OctaveSize) + NoteC0 + offset

\* the MidiNoteOn listener: ks is the keys table
midiNoteOn(p, ks, note, velocity) ==
    LET rn == getRelativeNote(note - 60)
        r  == triggerNote(p, rn, velocity)
    IN  [p |-> r.p, keys |-> IF r.ret THEN Put(ks, note, rn) ELSE ks,
         ret |-> r.ret, events |-> r.events]

\* the MidiNoteOff listener; keys[note] of a key never set is undefined and
\* has no table entry
midiNoteOff(p, ks, note, velocity) ==
    IF note \notin DOMAIN ks
    THEN [p |-> p, keys |-> ks, ret |-> FALSE, events |-> <<>>]
    ELSE LET r == releaseNote(p, ks[note], velocity)
         IN  [p |-> r.p, keys |-> IF r.ret THEN Put(ks, note, 0) ELSE ks,
              ret |-> r.ret, events |-> r.events]

----------------------------------------------------------------------------
(* Driver: the piano *)

\* PSGVol
PSGVol ==
    <<0, 0, 0, 1, 1, 1, 1, 1, 2, 2, 2, 2, 2, 3, 3, 3, 3, 4, 4, 4, 5, 5, 5, 6, 6,
      7, 7, 8, 9, 10, 11, 12, 13, 14>>

\* the three writes of pianoTrigger: the low and the high bits of the
\* frequency of the note, and the volume of PSGVol for a velocity of 0 or 1
triggerWrites(note, velocity) ==
    <<[cmd |-> "FREQ", value |-> note], [cmd |-> "DATA", value |-> note],
      [cmd |-> "VOLUME",
       value |-> PSGVol[(Len(PSGVol) - 1 - (velocity * (Len(PSGVol) - 1))) + 1]]>>

\* the write of pianoRelease: volume off
releaseWrites == <<[cmd |-> "VOLUME", value |-> 15]>>

\* pianoTrigger(note, velocity, channel) on the driver state d
pianoTrigger(d, note, velocity, channel) ==
    IF DriverFrequency("YM7101PSG", note) = "undefined"
    THEN [d |-> d, ret |-> FALSE]
    ELSE [d |-> [pianoNotes |-> Put(d.pianoNotes, channel, note),
                 chip |-> d.chip \o triggerWrites(note, velocity)],
          ret |-> TRUE]

\* pianoRelease that writes the volume whether or not the note is held
pianoReleaseAlways(d, note) ==
    [d |-> [d EXCEPT !.chip = @ \o releaseWrites], ret |-> TRUE]

\* pianoRelease(note) on the driver state d
pianoRelease(d, note) ==
    IF \E channel \in DOMAIN d.pianoNotes : d.pianoNotes[channel] = note
    THEN [d |-> [d EXCEPT !.chip = @ \o releaseWrites], ret |-> TRUE]
    ELSE [d |-> d, ret |-> TRUE]

\* the driver state
DriverState == [pianoNotes |-> pianoNotes, chip |-> chip]

----------------------------------------------------------------------------
(* Actions outside the shortcut handler *)

\* the base octaves the tab is switched between
NoteOctaves == {0, 1}

\* the tab sets another base octave
SetOctave ==
    /\ Idle
    /\ \E o \in NoteOctaves \ {octave} : octave' = o
    /\ UNCHANGED <<single, multi, patternLen, matrix, channelInfo, rowHighlights,
                   recordMode, nanNotes, channels, selectedChannel, scmap, cells,
                   edited, dirty, ext, call, sys>>

\* a note key goes down or up; the history keeps the note of a key-down
\* until the key's next key-up
KeyPress ==
    /\ Idle
    /\ \E g \in {0, 1}, state \in BOOLEAN :
          LET data == <<"note", <<"octave0", "OCTAVE1">>[g + 1], "c#">>
              r    == receiveShortcut(data, state, Program, FALSE)
          IN  /\ scmap' = r.p.scmap
              /\ cells' = r.p.cells
              /\ edited' = r.p.edited
              /\ dirty' = r.p.dirty
              /\ history' = [history EXCEPT
                                !.down = IF state
                                         THEN Put(@, <<g, 1>>, r.p.scmap[<<g, 1>>])
                                         ELSE Drop(@, <<g, 1>>)]
              /\ call' = [active |-> TRUE, cmd |-> data, state |-> state,
                          pre |-> Program, preHistory |-> history,
                          ret |-> r.ret, events |-> r.events]
    /\ UNCHANGED <<single, multi, grid, channels, selectedChannel, keys,
                   pianoNotes, chip, tasks, sys>>

\* the record of a listener or driver call
Listened(name, arg, ret, events) ==
    [active |-> TRUE, cmd |-> <<name>>, arg |-> arg, state |-> TRUE,
     pre |-> Program, preKeys |-> keys, preDriver |-> DriverState,
     preHistory |-> history, ret |-> ret, events |-> events]

\* a MidiNoteOn event arrives, for a key below or above the lowest PSG note
MidiNoteOn ==
    /\ Idle
    /\ \E k \in {47, 60} :
          LET r == midiNoteOn(Program, keys, k, 1)
          IN  /\ cells' = r.p.cells
              /\ edited' = r.p.edited
              /\ dirty' = r.p.dirty
              /\ keys' = r.keys
              /\ history' = IF r.ret
                            THEN [history EXCEPT !.midi = Put(@, k, r.keys[k])]
                            ELSE history
              /\ call' = Listened("MidiNoteOn", k, r.ret, r.events)
    /\ UNCHANGED <<single, multi, grid, channels, selectedChannel, scmap,
                   pianoNotes, chip, tasks, sys>>

\* a MidiNoteOff event arrives
MidiNoteOff ==
    /\ Idle
    /\ \E k \in {47, 60} :
          LET r == midiNoteOff(Program, keys, k, 0)
          IN  /\ keys' = r.keys
              /\ history' = IF r.ret
                            THEN [history EXCEPT !.midi = Drop(@, k)]
                            ELSE history
              /\ call' = Listened("MidiNoteOff", k, r.ret, r.events)
    /\ UNCHANGED <<single, multi, grid, channels, selectedChannel, scmap, cells,
                   edited, dirty, pianoNotes, chip, tasks, sys>>

\* the driver is asked to trigger a filler or one of two notes, on one of
\* two channels
PianoTrigger ==
    /\ Idle
    /\ Len(chip) + 3 <= MaxChipWrites
    /\ \E note \in {NoteCut, NoteC0, NoteC0 + 1}, velocity \in {0, 1}, channel \in {6, 7} :
          LET r == pianoTrigger(DriverState, note, velocity, channel)
          IN  /\ pianoNotes' = r.d.pianoNotes
              /\ chip' = r.d.chip
              /\ call' = Listened("pianoTrigger",
                                  [note |-> note, velocity |-> velocity,
                                   channel |-> channel], r.ret, <<>>)
    /\ UNCHANGED <<single, multi, grid, channels, selectedChannel, scmap, cells,
                   edited, dirty, keys, tasks, history, sys>>

\* the driver is asked to release a note
PianoRelease ==
    /\ Idle
    /\ Len(chip) + 1 <= MaxChipWrites
    /\ \E note \in {NoteCut, NoteC0, NoteC0 + 1} :
          LET r == pianoRelease(DriverState, note)
          IN  /\ pianoNotes' = r.d.pianoNotes
              /\ chip' = r.d.chip
              /\ call' = Listened("pianoRelease", [note |-> note], r.ret, <<>>)
    /\ UNCHANGED <<single, multi, grid, channels, selectedChannel, scmap, cells,
                   edited, dirty, keys, tasks, history, sys>>

----------------------------------------------------------------------------
(* Note specification: note keys, record mode and chfx on two channels, the
   second without effects and without pattern data *)

InitNote ==
    /\ single = Pos(0, 0, 0, 0)
    /\ multi = NoMulti
    /\ patternLen = AllPatternLen
    /\ matrix = NoteMatrix
    /\ channelInfo = NoteChannelInfo
    /\ rowHighlights = AllRowHighlights
    /\ \E fx \in 1 .. MaxEffects :
          channels = <<[type |-> "YM2612FM", id |-> 0, features |-> {"EFFECTS"},
                        effects |-> fx],
                       [type |-> "YM7101PSG", id |-> 6, features |-> {}, effects |-> 1]>>
    /\ selectedChannel = 0
    /\ octave \in NoteOctaves
    /\ recordMode \in BOOLEAN
    /\ scmap = [k \in {} |-> 0]
    /\ cells = [c \in {d \in CellIds(NoteMatrix, AllPatternLen) : d[1] = 0} |-> 0]
    /\ edited = {}
    /\ dirty = FALSE
    /\ nanNotes = NoteNaNs
    /\ ExtInit
    /\ call = NoCall

NextNote ==
    \/ SelMove
    \/ ChfxAdjust
    \/ KeyPress
    \/ NoteSpecial
    \/ SetOctave
    \/ Resolve

SpecNote == InitNote /\ [][NextNote]_vars

----------------------------------------------------------------------------
(* MIDI specification: the MIDI listeners on one PSG channel, whose table
   has no notes below C0 *)

InitMidi ==
    /\ single = Pos(0, 0, 0, 0)
    /\ multi = NoMulti
    /\ patternLen = AllPatternLen
    /\ matrix = AllMatrix
    /\ channelInfo = AllChannelInfo
    /\ rowHighlights = AllRowHighlights
    /\ channels = <<[type |-> "YM7101PSG", id |-> 6, features |-> {"EFFECTS"}, effects |-> 1]>>
    /\ selectedChannel = 0
    /\ octave \in NoteOctaves
    /\ recordMode \in BOOLEAN
    /\ scmap = [k \in {} |-> 0]
    /\ cells = [c \in CellIds(AllMatrix, AllPatternLen) |-> 0]
    /\ edited = {}
    /\ dirty = FALSE
    /\ nanNotes = {}
    /\ ExtInit
    /\ call = NoCall

NextMidi ==
    \/ MidiNoteOn
    \/ MidiNoteOff
    \/ SetOctave
    \/ Resolve

SpecMidi == InitMidi /\ [][NextMidi]_vars

----------------------------------------------------------------------------
(* Driver specification: the piano of the driver, next to the note keys *)

NextDriver ==
    \/ PianoTrigger
    \/ PianoRelease
    \/ KeyPress
    \/ Resolve

SpecDriver == InitMidi /\ [][NextDriver]_vars

----------------------------------------------------------------------------
(* Calls in flight.  A call of receiveShortcut that awaits a collaborator
   is suspended there and other calls run meanwhile; a task records where
   the call is (pc): the collaborator it awaits, or "done". *)

\* the note key of the calls in flight: octave group 0, note C#
AsyncKey == <<0, 1>>

\* a call dispatched now: pc is where it is suspended, n the note it
\* carries, target the endpoint index movechannel syncs to, pre the
\* selection at dispatch (kept for sel commands), at the cursor when
\* triggerNote was entered (kept for key-downs)
Task(kind, pc, n, target) ==
    [kind |-> kind, pc |-> pc, n |-> n, target |-> target,
     type |-> channels[selectedChannel + 1].type,
     pre |-> IF kind = "sel" THEN <<single, multi>> ELSE <<>>,
     at |-> <<>>, events |-> <<>>, wrote |-> <<>>]

\* note(): the key-down is over, the key map gets the note
keyDone(p, t) ==
    [p |-> [p EXCEPT !.scmap = Put(@, AsyncKey, t.n)], t |-> [t EXCEPT !.pc = "done"]]

\* triggerNote after the note-on: the record-mode write, up to the await of
\* updateCurrentRow
record(p, t) ==
    IF recordMode /\ getCurrentElementId(p) = 0 /\ getCurrentPatternCell(p) # <<>>
    THEN [p |-> [p EXCEPT !.cells[getCurrentPatternCell(p)] = t.n,
                          !.edited = @ \cup {<<getCurrentPatternCell(p)[1],
                                               getCurrentPatternCell(p)[2]>>}],
          t |-> [t EXCEPT !.pc = "updateRow", !.wrote = getCurrentPatternCell(p)]]
    ELSE keyDone(p, t)

\* the event a task emits now
Emitted(p, t, type, velocity) ==
    [t EXCEPT !.events = Append(@, [type |-> type,
                                    channel |-> channels[p.selectedChannel + 1].id,
                                    note |-> t.n, velocity |-> velocity])]

\* the continuation of the suspended task t on program state p, up to its
\* next await
resume(p, t) ==
    CASE t.pc = "getNotes" ->
            [p |-> p,
             t |-> [t EXCEPT !.pc = "trigger",
                             !.n = NoteC0 + AsyncKey[2]
                                     + ((octave + AsyncKey[1]) * OctaveSize),
                             !.type = channels[p.selectedChannel + 1].type,
                             !.at = p.single]]
      [] t.pc = "trigger" ->
            (IF NoteFrequency(t.type, t.n) = "undefined" THEN keyDone(p, t)
             ELSE IF NoteFrequency(t.type, t.n) = "number"
             THEN [p |-> p, t |-> [Emitted(p, t, "PianoNoteOn", 1) EXCEPT !.pc = "noteOn"]]
             ELSE record(p, t))
      [] t.pc = "noteOn" -> record(p, t)
      [] t.pc = "updateRow" -> keyDone([p EXCEPT !.dirty = TRUE], t)
      [] t.pc = "release" ->
            (IF NoteFrequency(t.type, t.n) = "number"
             THEN [p |-> p, t |-> [Emitted(p, t, "PianoNoteOff", 0) EXCEPT !.pc = "noteOff"]]
             ELSE [p |-> [p EXCEPT !.scmap = Drop(@, AsyncKey)],
                   t |-> [t EXCEPT !.pc = "done"]])
      [] t.pc = "noteOff" ->
            [p |-> [p EXCEPT !.scmap = Drop(@, AsyncKey)], t |-> [t EXCEPT !.pc = "done"]]
      [] t.pc = "scrollToRow" -> [p |-> p, t |-> [t EXCEPT !.pc = "done"]]
      [] t.pc = "ensureVisibleChannel" ->
            [p |-> p, t |-> [t EXCEPT !.pc = "setSelectedChannel"]]
      [] t.pc = "setSelectedChannel" ->
            [p |-> MergeSelection(p, WithSelected(moveMulti(p.single, p.multi, 0, 0, FALSE),
                                                  p.multi[t.target + 1].channel)).p,
             t |-> [t EXCEPT !.pc = "done"]]

\* the program state p becomes the state
Becomes(p) ==
    /\ single' = p.single
    /\ multi' = p.multi
    /\ channels' = p.channels
    /\ selectedChannel' = p.selectedChannel
    /\ scmap' = p.scmap
    /\ cells' = p.cells
    /\ edited' = p.edited
    /\ dirty' = p.dirty

\* no sel command is suspended
NoSelSuspended == \A i \in 1 .. Len(tasks) : tasks[i].kind = "sel" => tasks[i].pc = "done"

\* a key-down of the note key is dispatched and awaits the note table
DownBegin ==
    /\ Len(tasks) < MaxTasks
    /\ NoSelSuspended
    /\ tasks' = Append(tasks, Task("down", "getNotes", 0, 0))
    /\ UNCHANGED <<single, multi, grid, channels, selectedChannel, scmap, cells,
                   edited, dirty, keys, pianoNotes, chip, history, call, sys>>

\* a key-up of the note key is dispatched: with an entry in the key map it
\* awaits the note table in releaseNote, without one it is over
UpBegin ==
    /\ Len(tasks) < MaxTasks
    /\ NoSelSuspended
    /\ tasks' = Append(tasks,
                       IF AsyncKey \in DOMAIN scmap /\ scmap[AsyncKey] # 0
                       THEN Task("up", "release", scmap[AsyncKey], 0)
                       ELSE Task("up", "done", 0, 0))
    /\ UNCHANGED <<single, multi, grid, channels, selectedChannel, scmap, cells,
                   edited, dirty, keys, pianoNotes, chip, history, call, sys>>

\* sel extendtop or extendbottom is dispatched and awaits scrollToRow
ExtendBegin ==
    /\ Len(tasks) < MaxTasks
    /\ \A i \in 1 .. Len(tasks) : tasks[i].pc = "done"
    /\ \E sub \in {"extendtop", "extendbottom"} :
          Becomes(MergeSelection(Program,
                                 handleSelectionShortcut(<<sub>>, single, multi, FALSE)).p)
    /\ tasks' = Append(tasks, Task("sel", "scrollToRow", 0, 0))
    /\ UNCHANGED <<grid, keys, pianoNotes, chip, history, call, sys>>

\* sel movechannel is dispatched on a range and awaits ensureVisibleChannel
MoveChannelBegin ==
    /\ Len(tasks) < MaxTasks
    /\ \A i \in 1 .. Len(tasks) : tasks[i].pc = "done"
    /\ multi # NoMulti
    /\ \E d \in {"left", "right"} :
          LET x      == shortcutDirection(d).x
              sl     == moveChannelRange(multi, x)
              target == moveChannelTarget(sl, x, multi[1].channel = multi[2].channel)
          IN  /\ single' = [single EXCEPT !.channel = sl[target].channel,
                                          !.element = sl[target].element]
              /\ multi' = <<sl[0], sl[1]>>
              /\ tasks' = Append(tasks, Task("sel", "ensureVisibleChannel", 0, target))
    /\ UNCHANGED <<grid, channels, selectedChannel, scmap, cells, edited, dirty,
                   keys, pianoNotes, chip, history, call, sys>>

\* the collaborator a call awaits answers and the call runs to its next await
Resume ==
    /\ \E i \in 1 .. Len(tasks) :
          /\ tasks[i].pc # "done"
          /\ Becomes(resume(Program, tasks[i]).p)
          /\ tasks' = [tasks EXCEPT ![i] = resume(Program, tasks[i]).t]
    /\ UNCHANGED <<grid, keys, pianoNotes, chip, history, call, sys>>

\* sel move runs to completion between the steps of the calls in flight
Navigate ==
    /\ NoSelSuspended
    /\ \E d \in Directions :
          Becomes(receiveShortcut(<<"sel", "move", d>>, TRUE, Program, FALSE).p)
    /\ UNCHANGED <<grid, ext, call, sys>>

\* all calls are over and their records are dropped
Retire ==
    /\ tasks # <<>>
    /\ \A i \in 1 .. Len(tasks) : tasks[i].pc = "done"
    /\ tasks' = <<>>
    /\ UNCHANGED <<single, multi, grid, channels, selectedChannel, scmap, cells,
                   edited, dirty, keys, pianoNotes, chip, history, call, sys>>

\* the program in record mode on the grid of the note specification
InitAsync ==
    /\ InitNote
    /\ recordMode
    /\ octave = 0
    /\ channels[1].effects = 1

\* note keys in flight, with cursor moves in between
NextAsync ==
    \/ DownBegin
    \/ UpBegin
    \/ Resume
    \/ Navigate
    \/ Retire

SpecAsync == InitAsync /\ [][NextAsync]_vars

\* sel commands that await a collaborator, with cursor moves in between
NextAwait ==
    \/ ExtendBegin
    \/ MoveChannelBegin
    \/ Resume
    \/ Navigate
    \/ Retire

SpecAwait == InitAsync /\ [][NextAwait]_vars

----------------------------------------------------------------------------
(* The Exit listener of the editor layout.  askSavePopup awaits the
   confirmation dialog and, when the user chooses Save, returns the promise
   of Project.current.save(false) from inside its try block without awaiting
   it there. *)

\* the promise of an async function: settled as resolved with a value, or
\* as rejected
Resolved(v) == [settled |-> "resolved", value |-> v]
Rejected == [settled |-> "rejected", value |-> FALSE]

\* askSavePopup once the dialog has settled: with a button, or with "error"
\* when confirmationDialog throws; "pending" stands for the switch reaching
\* case 2
afterDialog(answer) ==
    CASE answer = "Save"       -> [settled |-> "pending", value |-> FALSE]
      [] answer = "Don't save" -> Resolved(TRUE)
      [] answer = "error"      -> Resolved(FALSE)
      [] OTHER                 -> Resolved(FALSE)

\* askSavePopup's promise once the promise of save has settled: the return
\* statement hands the promise over as it is, and a rejection settles after
\* the try block has been left
afterSave(outcome) ==
    CASE outcome = "saved"  -> Resolved(TRUE)
      [] outcome = "throws" -> Rejected
      [] OTHER              -> Resolved(FALSE)

\* the listener after `await askSavePopup()`: event.cancel() on a false
\* value, nothing after a rejection
exitListener(e, r) ==
    [e EXCEPT !.pc = "done", !.settled = r.settled, !.value = r.value,
              !.cancelled = (r.settled = "resolved" /\ ~r.value)]

\* the Exit event is raised: a dirty project opens the dialog, a clean one
\* closes the popups
ExitBegin ==
    /\ Idle
    /\ exit.pc = "idle"
    /\ IF dirty
       THEN exit' = [NoExit EXCEPT !.pc = "dialog", !.asked = TRUE]
       ELSE \E closed \in BOOLEAN : exit' = exitListener(NoExit, Resolved(closed))
    /\ UNCHANGED <<single, multi, grid, channels, selectedChannel, scmap, cells,
                   edited, dirty, ext, call, ipc, ipcCall>>

\* the confirmation dialog settles
ExitDialog ==
    /\ exit.pc = "dialog"
    /\ \E answer \in {"Don't save", "Save", "Cancel", "error"} :
          LET e == [exit EXCEPT !.answer = answer]
              r == afterDialog(answer)
          IN  exit' = IF r.settled = "pending"
                      THEN [e EXCEPT !.pc = "save"]
                      ELSE exitListener(e, r)
    /\ UNCHANGED <<single, multi, grid, channels, selectedChannel, scmap, cells,
                   edited, dirty, ext, call, ipc, ipcCall>>

\* the promise of Project.current.save(false) settles: saved, cancelled in
\* the save-as dialog, failed, or rejected; a completed save leaves the
\* project clean
ExitSave ==
    /\ exit.pc = "save"
    /\ \E outcome \in {"saved", "cancelled", "failed", "throws"} :
          /\ exit' = exitListener([exit EXCEPT !.save = outcome], afterSave(outcome))
          /\ dirty' = IF outcome = "saved" THEN FALSE ELSE dirty
    /\ UNCHANGED <<single, multi, grid, channels, selectedChannel, scmap, cells,
                   edited, ext, call, ipc, ipcCall>>

\* a cancelled Exit leaves the program running
ExitReturn ==
    /\ exit.pc = "done"
    /\ exit.cancelled
    /\ exit' = NoExit
    /\ UNCHANGED <<single, multi, grid, channels, selectedChannel, scmap, cells,
                   edited, dirty, ext, call, ipc, ipcCall>>

\* a note key is played while no Exit is being handled
ExitKeyPress ==
    /\ exit.pc = "idle"
    /\ KeyPress

ExitResolve ==
    /\ exit.pc = "idle"
    /\ Resolve

NextExit ==
    \/ ExitBegin
    \/ ExitDialog
    \/ ExitSave
    \/ ExitReturn
    \/ ExitKeyPress
    \/ ExitResolve

SpecExit == InitMidi /\ [][NextExit]_vars

----------------------------------------------------------------------------
(* The main process and the audio worker.  The worker takes the messages
   posted to it in order and posts its answers; each answer is a 'message'
   event of the worker in the main process, handed to the listeners
   registered at that moment, in the order of their registration. *)

Message(code, fn, data) == [code |-> code, fn |-> fn, data |-> data]

\* worker.on / worker.once: one more listener
Listen(st, kind, fn, req) ==
    [st EXCEPT !.listeners = Append(@, [id |-> st.ids, kind |-> kind,
                                        fn |-> fn, req |-> req]),
               !.ids = @ + 1]

\* worker.off, and the removal of a once listener
Unlisten(st, id) ==
    [st EXCEPT !.listeners = SelectSeq(@, LAMBDA l : l.id # id)]

\* one listener receives the message: the listener of create logs, the once
\* listener of UiExit is removed and terminates the worker on 'quit', the
\* listener f of DriverFunc replies and removes itself on a 'cdr' of its
\* function name
onMessage(st, l, msg) ==
    CASE l.kind = "exit" ->
           LET s == Unlisten(st, l.id)
           IN  IF msg.code = "quit" /\ s.worker = "running"
               THEN [s EXCEPT !.worker = "terminating"] ELSE s
      [] l.kind = "func" ->
           IF msg.code = "cdr" /\ msg.fn = l.fn
           THEN Unlisten([st EXCEPT !.replies = Append(@, [req |-> l.req,
                                                           data |-> msg.data])],
                         l.id)
           ELSE st
      [] OTHER -> st

\* the 'message' event: every listener of the list ls in turn
RECURSIVE emit(_, _, _)
emit(st, ls, msg) ==
    IF ls = <<>> THEN st ELSE emit(onMessage(st, Head(ls), msg), Tail(ls), msg)

\* the step that has just run
IpcCalled(name, arg, pre) == [name |-> name, arg |-> arg, pre |-> pre]

\* ipcEnum.RpcInit, sent once a client is missing
RpcInit ==
    /\ ~ipc.rpc
    /\ ipc.windows = "open"
    /\ ipc' = [ipc EXCEPT !.rpc = TRUE]
    /\ ipcCall' = IpcCalled("RpcInit", FALSE, <<>>)
    /\ UNCHANGED <<single, multi, grid, channels, selectedChannel, scmap, cells,
                   edited, dirty, ext, call, exit>>

\* ipcEnum.UiExit with a state
UiExit ==
    /\ ipc.windows = "open"
    /\ \E state \in BOOLEAN :
          /\ state => ipc.exits < MaxExits
          /\ ipc' = IF ~state THEN ipc
                    ELSE Listen([ipc EXCEPT !.rpc = FALSE, !.exits = @ + 1,
                                            !.inbox = Append(@, Message("quit", "", 0))],
                                "exit", "", 0)
          /\ ipcCall' = IpcCalled("UiExit", state, ipc)
    /\ UNCHANGED <<single, multi, grid, channels, selectedChannel, scmap, cells,
                   edited, dirty, ext, call, exit>>

\* ipcEnum.DriverFunc with a function name; the arguments are the number of
\* the request
DriverFunc ==
    /\ ipc.windows = "open"
    /\ ipc.requests < MaxRequests
    /\ \E fn \in {"mute", "pianoTrigger"} :
          LET req == ipc.requests + 1
          IN  /\ ipc' = Listen([ipc EXCEPT !.requests = req,
                                           !.inbox = Append(@, Message("cd", fn, req))],
                               "func", fn, req)
              /\ ipcCall' = IpcCalled("DriverFunc", FALSE, <<>>)
    /\ UNCHANGED <<single, multi, grid, channels, selectedChannel, scmap, cells,
                   edited, dirty, ext, call, exit>>

\* the worker's answer to a function call
Response(fn, args) == <<fn, args>>

\* the worker takes its next message: it answers 'cd' with 'cdr' and 'quit'
\* with 'quit'
WorkerTakes ==
    /\ ipc.worker = "running"
    /\ ipc.inbox # <<>>
    /\ LET msg == Head(ipc.inbox)
           st  == [ipc EXCEPT !.inbox = Tail(@)]
       IN  ipc' = CASE msg.code = "cd" ->
                        [st EXCEPT !.outbox =
                            Append(@, Message("cdr", msg.fn,
                                              Response(msg.fn, msg.data)))]
                    [] msg.code = "quit" ->
                        [st EXCEPT !.outbox = Append(@, Message("quit", "", 0))]
                    [] OTHER -> st
    /\ ipcCall' = IpcCalled("takes", FALSE, <<>>)
    /\ UNCHANGED <<single, multi, grid, channels, selectedChannel, scmap, cells,
                   edited, dirty, ext, call, exit>>

\* the worker posts a 'log' or an 'error' message
WorkerLogs ==
    /\ ipc.worker = "running"
    /\ ipc.logs < MaxLogs
    /\ \E code \in {"log", "error"} :
          ipc' = [ipc EXCEPT !.logs = @ + 1,
                             !.outbox = Append(@, Message(code, "", 0))]
    /\ ipcCall' = IpcCalled("logs", FALSE, <<>>)
    /\ UNCHANGED <<single, multi, grid, channels, selectedChannel, scmap, cells,
                   edited, dirty, ext, call, exit>>

\* the next message of the worker arrives in the main process
WorkerMessage ==
    /\ ipc.worker # "terminated"
    /\ ipc.outbox # <<>>
    /\ LET msg == Head(ipc.outbox)
           st  == [ipc EXCEPT !.outbox = Tail(@),
                              !.acked = @ \/ msg.code = "quit",
                              !.answered = IF msg.code = "cdr"
                                           THEN @ \cup {msg.data[2]} ELSE @]
       IN  ipc' = emit(st, ipc.listeners, msg)
    /\ ipcCall' = IpcCalled("message", FALSE, <<>>)
    /\ UNCHANGED <<single, multi, grid, channels, selectedChannel, scmap, cells,
                   edited, dirty, ext, call, exit>>

\* the promise of worker.terminate() resolves: every window is destroyed
WorkerTerminated ==
    /\ ipc.worker = "terminating"
    /\ ipc' = [ipc EXCEPT !.worker = "terminated", !.windows = "destroyed"]
    /\ ipcCall' = IpcCalled("terminated", FALSE, <<>>)
    /\ UNCHANGED <<single, multi, grid, channels, selectedChannel, scmap, cells,
                   edited, dirty, ext, call, exit>>

NextIpc ==
    \/ RpcInit
    \/ UiExit
    \/ DriverFunc
    \/ WorkerTakes
    \/ WorkerLogs
    \/ WorkerMessage
    \/ WorkerTerminated

InitIpc == InitMidi /\ octave = 0 /\ recordMode

SpecIpc == InitIpc /\ [][NextIpc]_vars

----------------------------------------------------------------------------
(* Properties.  A property speaks of the call recorded in `call`: the
   command, the program state before it (call.pre), the value returned, and
   the program state after it (the current state). *)

\* the last call was the sel sub-command sub
Called(sub) ==
    /\ call.active
    /\ Len(call.cmd) >= 2
    /\ call.cmd[1] = "sel"
    /\ call.cmd[2] = sub

\* the last call was the sel sub-command sub with direction word d
CalledDir(sub, d) == Called(sub) /\ Tok(call.cmd, 3) = d

\* the last call was one of the sel sub-commands subs with a valid direction
CalledValid(subs) ==
    /\ call.active
    /\ Len(call.cmd) >= 3
    /\ call.cmd[1] = "sel"
    /\ call.cmd[2] \in subs
    /\ call.cmd[3] \in Directions

SelCommands ==
    DirectionCommands \cup
    {"rowtop", "rowbottom", "extendtop", "extendbottom", "patterntop",
     "patternbottom", "fullcolumn", "fullchannel", "fullpattern", "deselect"}

NoteGroups == {"octave0", "octave1", "octave2", "rest", "cut"}

\* data has a token that no level of the dispatcher knows
NotRecognized(data) ==
    CASE Tok(data, 1) = "sel" ->
            \/ Tok(data, 2) \notin SelCommands
            \/ Tok(data, 2) \in DirectionCommands /\ Tok(data, 3) \notin Directions
      [] Tok(data, 1) = "chfx" -> Tok(data, 2) \notin Directions
      [] Tok(data, 1) = "note" ->
            \/ toLowerCase(Tok(data, 2)) \notin NoteGroups
            \/ /\ toLowerCase(Tok(data, 2)) \in {"octave0", "octave1", "octave2"}
               /\ \A i \in 1 .. Len(NoteNames) : NoteNames[i] # toUpperCase(Tok(data, 3))
      [] OTHER -> TRUE

\* C1: a command with an unrecognized top-level token, sub-command,
\* direction, note group or note name returns false and leaves the single
\* selection, the multi selection, the held-key map and the pattern cells
\* as they were
C1_UnrecognizedIsIgnored ==
    (call.active /\ NotRecognized(call.cmd)) =>
        /\ call.ret = FALSE
        /\ single = call.pre.single
        /\ multi = call.pre.multi
        /\ scmap = call.pre.scmap
        /\ cells = call.pre.cells

C1_Witness ==
    /\ call.active
    /\ NotRecognized(call.cmd)
    /\ Tok(call.cmd, 1) = "sel"
    /\ Tok(call.cmd, 3) = "forward"
    /\ multi # NoMulti
    /\ single # Pos(0, 0, 0, 0)
    /\ DOMAIN scmap # {}
    /\ \E c \in DOMAIN cells : cells[c] # 0

\* the flattened column and row of a position
FlatCol(p) == ColBase(p.channel) + p.element

FlatRow(p) == (p.pattern * patternLen) + p.row

\* C2: whatever sequence of commands ran, and so after any navigation
\* command given while no range exists, the cursor is on a pattern below
\* matrixlen, a row below patternLen, a channel below the channel count and
\* an element below that channel's element count
C2_CursorInGrid == InGrid(single)

C2_Witness ==
    /\ CalledDir("movechannel", "right")
    /\ call.pre.multi = NoMulti
    /\ call.pre.single.channel = NumChannels - 1
    /\ call.pre.single.element = 1
    /\ call.pre.single.row = patternLen - 1
    /\ single.channel = 0
    /\ call.ret

\* C3: movepattern down keeps the row and goes to pattern (p + 1) mod
\* matrixlen, movepattern up to pattern (p - 1) mod matrixlen, and down
\* followed by up comes back to the starting cursor
C3_MovePattern ==
    /\ CalledDir("movepattern", "down") =>
          /\ single = [call.pre.single EXCEPT !.pattern = (@ + 1) % matrixlen]
          /\ selMovePattern(single, multi, shortcutDirection("up")).single
                = call.pre.single
    /\ CalledDir("movepattern", "up") =>
          single = [call.pre.single EXCEPT !.pattern = (@ - 1) % matrixlen]

C3_Witness ==
    /\ CalledDir("movepattern", "down")
    /\ call.pre.single.pattern = matrixlen - 1
    /\ call.pre.single.row = patternLen - 1
    /\ single.pattern = 0
    /\ single.row = patternLen - 1

\* the columns and rows a direction command asks to move by
StepOf(sub) == IF sub \in {"scroll", "scrollextend"} THEN 4 ELSE 1

AskedX == shortcutDirection(call.cmd[3]).x * StepOf(call.cmd[2])

AskedY == shortcutDirection(call.cmd[3]).y * StepOf(call.cmd[2])

\* moving p by the asked amount leaves the grid
PastEdge(p) ==
    \/ FlatCol(p) + AskedX \notin 0 .. TotalCols - 1
    \/ FlatRow(p) + AskedY \notin 0 .. TotalRows - 1

\* p moved by the asked amount, stopped at the grid edge
Clamped(p, q) ==
    /\ FlatCol(q) = Max2(0, Min2(TotalCols - 1, FlatCol(p) + AskedX))
    /\ FlatRow(q) = Max2(0, Min2(TotalRows - 1, FlatRow(p) + AskedY))

\* C4: while a range exists, move, scroll, extend and scrollextend act on
\* the second endpoint and never wrap it: a step past a grid edge leaves it
\* clamped at that edge and returns false; with no range, move and scroll
\* wrap the cursor around the edge
C4_RangeNeverWraps ==
    /\ (CalledValid({"move", "scroll", "extend", "scrollextend"})
            /\ call.pre.multi # NoMulti) =>
          /\ single = call.pre.single
          /\ multi # NoMulti
          /\ multi[1] = call.pre.multi[1]
          /\ InGrid(multi[2])
          /\ Clamped(call.pre.multi[2], multi[2])
          /\ call.ret = ~PastEdge(call.pre.multi[2])
    /\ (CalledValid({"move", "scroll"}) /\ call.pre.multi = NoMulti) =>
          /\ multi = NoMulti
          /\ FlatCol(single) = (FlatCol(call.pre.single) + AskedX) % TotalCols
          /\ FlatRow(single) = (FlatRow(call.pre.single) + AskedY) % TotalRows
          /\ call.ret

C4_Witness ==
    /\ CalledDir("move", "left")
    /\ call.pre.multi # NoMulti
    /\ FlatCol(call.pre.multi[2]) = 0
    /\ FlatCol(call.pre.multi[1]) # 0
    /\ multi = call.pre.multi
    /\ call.ret = FALSE

\* C5: extend and scrollextend leave the first endpoint of an existing
\* range as it was, and make the cursor the first endpoint of a new one
C5_FirstEndpointKept ==
    CalledValid({"extend", "scrollextend"}) =>
        /\ multi # NoMulti
        /\ multi[1] = (IF call.pre.multi = NoMulti THEN call.pre.single
                       ELSE call.pre.multi[1])
        /\ single = call.pre.single

C5_Witness ==
    /\ CalledDir("scrollextend", "down")
    /\ call.pre.multi # NoMulti
    /\ call.pre.multi[1] # call.pre.single
    /\ multi[2] # call.pre.multi[2]
    /\ multi[1] = call.pre.multi[1]

Opposite(d) ==
    CASE d = "up" -> "down" [] d = "down" -> "up"
      [] d = "left" -> "right" [] d = "right" -> "left"

\* the range after the last command is given again in the opposite direction
RangeAfterOpposite ==
    handleSelectionShortcut(<<call.cmd[2], Opposite(call.cmd[3])>>,
                            single, multi, FALSE).multi

\* C6 as stated: an extension of an existing range followed by the opposite
\* extension restores the range, also when the first one hit the grid edge
C6_RoundTripAlways ==
    (CalledValid({"extend", "scrollextend"}) /\ call.pre.multi # NoMulti) =>
        RangeAfterOpposite = call.pre.multi

\* C6: an extension of an existing range that was not stopped at a grid
\* edge (it returned true), followed by the opposite extension, restores
\* the range as it was before the pair
C6_RoundTripUnclamped ==
    (CalledValid({"extend", "scrollextend"}) /\ call.pre.multi # NoMulti
        /\ call.ret) => RangeAfterOpposite = call.pre.multi

C6_Witness ==
    /\ CalledDir("extend", "left")
    /\ call.pre.multi # NoMulti
    /\ call.pre.multi[1] # call.pre.multi[2]
    /\ call.pre.multi[1] # call.pre.single
    /\ call.ret
    /\ multi # call.pre.multi
    /\ RangeAfterOpposite = call.pre.multi

\* C7: after deselect, movepattern or movehighlight with a vertical
\* direction, patterntop and patternbottom no range exists; movepattern and
\* movehighlight with any other direction word leave the range as it was
C7_RangeCleared ==
    /\ (Called("deselect") \/ Called("patterntop") \/ Called("patternbottom"))
          => multi = NoMulti
    /\ (Called("movepattern") \/ Called("movehighlight")) =>
          IF Tok(call.cmd, 3) \in {"up", "down"}
          THEN multi = NoMulti
          ELSE multi = call.pre.multi /\ single = call.pre.single
                  /\ call.ret = FALSE

C7_Witness ==
    /\ CalledDir("movehighlight", "up")
    /\ call.pre.multi # NoMulti
    /\ multi = NoMulti
    /\ single # call.pre.single

\* the sel sub-commands that may create a range
RangeCreators ==
    {"extend", "scrollextend", "extendtop", "extendbottom", "fullcolumn",
     "fullchannel", "fullpattern"}

\* a and b differ in the row at most
SameButRow(a, b) == [a EXCEPT !.row = 0] = [b EXCEPT !.row = 0]

\* C8: a range comes into existence only in extend, scrollextend,
\* extendtop, extendbottom, fullcolumn, fullchannel and fullpattern; the
\* extension commands make it from a copy of the cursor when there is none,
\* and work on the existing range, without copying the cursor again, when
\* there is one
C8_RangeCreation ==
    /\ (call.active /\ call.pre.multi = NoMulti /\ multi # NoMulti) =>
          Tok(call.cmd, 1) = "sel" /\ Tok(call.cmd, 2) \in RangeCreators
    /\ (CalledValid({"extend", "scrollextend"}) /\ call.pre.multi = NoMulti) =>
          /\ multi[1] = call.pre.single
          /\ Clamped(call.pre.single, multi[2])
    /\ (CalledValid({"extend", "scrollextend"}) /\ call.pre.multi # NoMulti) =>
          /\ multi[1] = call.pre.multi[1]
          /\ Clamped(call.pre.multi[2], multi[2])
    /\ (Called("extendtop") /\ call.pre.multi = NoMulti) =>
          multi = <<[call.pre.single EXCEPT !.row = 0], call.pre.single>>
    /\ (Called("extendbottom") /\ call.pre.multi = NoMulti) =>
          multi = <<[call.pre.single EXCEPT !.row = patternLen - 1],
                    call.pre.single>>
    /\ ((Called("extendtop") \/ Called("extendbottom"))
            /\ call.pre.multi # NoMulti) =>
          /\ SameButRow(multi[1], call.pre.multi[1])
          /\ SameButRow(multi[2], call.pre.multi[2])
          /\ multi[1] = call.pre.multi[1] \/ multi[2] = call.pre.multi[2]

C8_Witness ==
    /\ Called("extendtop")
    /\ call.pre.multi # NoMulti
    /\ ~SameButRow(call.pre.multi[1], call.pre.single)
    /\ ~SameButRow(call.pre.multi[2], call.pre.single)
    /\ multi # call.pre.multi

\* the range fullpattern makes for a cursor s
FullPatternRange(s) ==
    <<Pos(s.pattern, 0, 0, 0),
      Pos(s.pattern, patternLen - 1, NumChannels - 1,
          NumElements(NumChannels - 1) - 1)>>

CoversRows(m) ==
    /\ Min2(m[1].row, m[2].row) = 0
    /\ Max2(m[1].row, m[2].row) = patternLen - 1

\* range m covers elements 0 .. last: its smaller element is 0 and its
\* larger element (the second endpoint's when both are equal) is the last
\* one of that endpoint's channel
CoversElements(m) ==
    /\ Min2(m[1].element, m[2].element) = 0
    /\ IF m[1].element > m[2].element
       THEN m[1].element = NumElements(m[1].channel) - 1
       ELSE m[2].element = NumElements(m[2].channel) - 1

\* the range of the last call already covers the unit the command selects
AlreadyFull ==
    /\ call.pre.multi # NoMulti
    /\ CoversRows(call.pre.multi)
    /\ Called("fullchannel") => CoversElements(call.pre.multi)

\* a is left of b in (channel, element) order
LeftOf(a, b) ==
    \/ a.channel < b.channel
    \/ a.channel = b.channel /\ a.element < b.element

\* cursor s is on the (channel, element) of an endpoint of m
OnEndpoint(s, m) ==
    \E i \in 1 .. 2 : m[i].channel = s.channel /\ m[i].element = s.element

\* cursor s lies strictly between the endpoints of m
StrictlyBetween(s, m) ==
    \/ LeftOf(m[1], s) /\ LeftOf(s, m[2])
    \/ LeftOf(m[2], s) /\ LeftOf(s, m[1])

\* the range fullcolumn or fullchannel builds around the cursor s
FullUnitRange(sub, s) ==
    IF sub = "fullcolumn"
    THEN <<[s EXCEPT !.row = 0], [s EXCEPT !.row = patternLen - 1]>>
    ELSE <<[s EXCEPT !.row = 0, !.element = 0],
           [s EXCEPT !.row = patternLen - 1,
                     !.element = NumElements(s.channel) - 1]>>

\* C10 as stated: with the unit already covered and the cursor on the
\* (channel, element) of an endpoint, fullcolumn and fullchannel return true
\* and rebuild the range; they return false only for a cursor strictly
\* between the endpoints
C10_EndpointProceeds ==
    ((Called("fullcolumn") \/ Called("fullchannel")) /\ AlreadyFull) =>
        /\ OnEndpoint(call.pre.single, call.pre.multi) =>
              /\ call.ret = TRUE
              /\ multi = FullUnitRange(call.cmd[2], call.pre.single)
        /\ call.ret = FALSE => StrictlyBetween(call.pre.single, call.pre.multi)

\* C10: with the unit already covered, fullcolumn and fullchannel return
\* false and leave the selection untouched exactly when the cursor is on the
\* (channel, element) of an endpoint or strictly between the endpoints;
\* otherwise, and when the unit is not covered, they return true and
\* rebuild the range around the cursor
C10_EndpointIsInside ==
    (Called("fullcolumn") \/ Called("fullchannel")) =>
        /\ single = call.pre.single
        /\ call.ret = ~( /\ AlreadyFull
                         /\ \/ OnEndpoint(call.pre.single, call.pre.multi)
                            \/ StrictlyBetween(call.pre.single, call.pre.multi) )
        /\ multi = IF call.ret THEN FullUnitRange(call.cmd[2], call.pre.single)
                   ELSE call.pre.multi

C10_Witness ==
    /\ Called("fullchannel")
    /\ AlreadyFull
    /\ OnEndpoint(call.pre.single, call.pre.multi)
    /\ ~StrictlyBetween(call.pre.single, call.pre.multi)
    /\ call.pre.multi[1].channel # call.pre.multi[2].channel
    /\ call.ret = FALSE
    /\ multi = call.pre.multi

\* the range of the last call is exactly the unit the command selects around
\* the cursor: both endpoints in the cursor's channel, rows 0 and
\* patternLen - 1, and the cursor's element only (fullcolumn) or elements
\* 0 .. last of the channel (fullchannel)
ExactUnit ==
    /\ call.pre.multi # NoMulti
    /\ call.pre.multi[1].channel = call.pre.single.channel
    /\ call.pre.multi[2].channel = call.pre.single.channel
    /\ CoversRows(call.pre.multi)
    /\ IF call.cmd[2] = "fullcolumn"
       THEN /\ call.pre.multi[1].element = call.pre.single.element
            /\ call.pre.multi[2].element = call.pre.single.element
       ELSE /\ Min2(call.pre.multi[1].element, call.pre.multi[2].element) = 0
            /\ Max2(call.pre.multi[1].element, call.pre.multi[2].element)
                  = NumElements(call.pre.single.channel) - 1

\* cursor s is on an endpoint of m or between the endpoints
Contains(s, m) == OnEndpoint(s, m) \/ StrictlyBetween(s, m)

Qualifying ==
    {h \in {rowHighlights[i] : i \in DOMAIN rowHighlights} : h < patternLen}

\* row q is a multiple of a qualifying interval
Highlighted(q) == \E h \in Qualifying : q % h = 0

SetMin(S) == CHOOSE v \in S : \A w \in S : v <= w

SetMax(S) == CHOOSE v \in S : \A w \in S : v >= w

\* the highlighted rows of a pattern below row r, and above row r
HighlightedBelow(r) == {q \in 0 .. r - 1 : Highlighted(q)}

HighlightedAbove(r) == {q \in r + 1 .. patternLen - 1 : Highlighted(q)}

\* C12: movehighlight down moves the cursor to the smallest row after its
\* own, in the same pattern, that is a multiple of an interval below
\* patternLen; when there is none it moves to row 0 of the next pattern
C12_HighlightDown ==
    CalledDir("movehighlight", "down") =>
        single = IF HighlightedAbove(call.pre.single.row) # {}
                 THEN [call.pre.single EXCEPT
                          !.row = SetMin(HighlightedAbove(call.pre.single.row))]
                 ELSE [call.pre.single EXCEPT
                          !.row = 0, !.pattern = (@ + 1) % matrixlen]

C12_Witness ==
    /\ CalledDir("movehighlight", "down")
    /\ Cardinality(Qualifying) = 2
    /\ call.pre.single.row % 2 = 0
    /\ single.row = call.pre.single.row + 1
    /\ single.pattern = call.pre.single.pattern
    /\ call.ret

\* C13: with an interval below patternLen, movehighlight up moves the
\* cursor from a row above 0 to the largest row before it, in the same
\* pattern, that is a multiple of a qualifying interval, and from row 0 to
\* the largest such row of the previous pattern
C13_HighlightUp ==
    (CalledDir("movehighlight", "up") /\ Qualifying # {}) =>
        single = IF call.pre.single.row > 0
                 THEN [call.pre.single EXCEPT
                          !.row = SetMax(HighlightedBelow(call.pre.single.row))]
                 ELSE [call.pre.single EXCEPT
                          !.row = SetMax(HighlightedBelow(patternLen)),
                          !.pattern = (@ - 1) % matrixlen]

C13_Witness ==
    /\ CalledDir("movehighlight", "up")
    /\ Qualifying # {}
    /\ \A h \in Qualifying : patternLen % h # 0
    /\ call.pre.single.row = 0
    /\ call.pre.single.pattern = 0
    /\ single.pattern = matrixlen - 1
    /\ single.row # 0
    /\ single.row + SetMin(Qualifying) >= patternLen

\* the row delta the last movehighlight handed to moveSingle
HandedDelta ==
    highlightDelta(call.pre.single.row, shortcutDirection(call.cmd[3]).y)

\* C14: the row delta movehighlight hands to moveSingle is strictly
\* negative for up and strictly positive for down, for every cursor row and
\* every list of highlight intervals
C14_DeltaInDirection ==
    /\ CalledDir("movehighlight", "up") => HandedDelta < 0
    /\ CalledDir("movehighlight", "down") => HandedDelta > 0

\* movehighlight up from row 0 with no interval below patternLen: the delta
\* is 0 and the cursor stays
C14_Witness ==
    /\ CalledDir("movehighlight", "up")
    /\ Qualifying = {}
    /\ rowHighlights # <<>>
    /\ call.pre.single.row = 0
    /\ HandedDelta = 0
    /\ single = call.pre.single

\* C15: with no range, movechannel left or right puts the cursor on element
\* 0 of the channel one step away, wrapping between the first and the last
\* channel, keeps pattern and row and creates no range; movechannel up or
\* down returns false and changes nothing
C15_MoveChannelSingle ==
    (Called("movechannel") /\ call.pre.multi = NoMulti) =>
        /\ multi = NoMulti
        /\ Tok(call.cmd, 3) = "right" =>
              single = [call.pre.single EXCEPT
                           !.element = 0, !.channel = (@ + 1) % NumChannels]
        /\ Tok(call.cmd, 3) = "left" =>
              single = [call.pre.single EXCEPT
                           !.element = 0, !.channel = (@ - 1) % NumChannels]
        /\ Tok(call.cmd, 3) \in {"up", "down"} =>
              single = call.pre.single /\ call.ret = FALSE

C15_Witness ==
    /\ CalledDir("movechannel", "left")
    /\ call.pre.multi = NoMulti
    /\ call.pre.single.channel = 0
    /\ call.pre.single.element = 1
    /\ call.pre.single.row # 0
    /\ single.channel = NumChannels - 1
    /\ single.element = 0

\* the last call was movechannel left or right with a range
RangeMoveChannel ==
    /\ CalledValid({"movechannel"})
    /\ call.cmd[3] \in {"left", "right"}
    /\ call.pre.multi # NoMulti

\* the endpoints of m are in one channel
OneChannel(m) == m[1].channel = m[2].channel

\* m, in one channel, has its endpoints on element 0 and on the last element
WholeChannel(m) ==
    /\ OneChannel(m)
    /\ Min2(m[1].element, m[2].element) = 0
    /\ Max2(m[1].element, m[2].element) = NumElements(m[1].channel) - 1

\* endpoint i of m and of n are on the same pattern and row
SameRows(m, n) ==
    \A i \in 1 .. 2 : m[i].pattern = n[i].pattern /\ m[i].row = n[i].row

\* the range of the last call is one full column of the last channel
FullColumnInLast ==
    /\ OneChannel(call.pre.multi)
    /\ call.pre.multi[1].channel = NumChannels - 1
    /\ call.pre.multi[1].element = call.pre.multi[2].element
    /\ CoversRows(call.pre.multi)

ChannelStep == shortcutDirection(call.cmd[3]).x

\* the channel of the first endpoint is not at the grid edge in the
\* direction of the last movechannel
NotAtEdge ==
    call.pre.multi[1].channel + ChannelStep \in 0 .. NumChannels - 1

\* C17 as stated: movechannel on a range that spans one whole channel, not
\* at the grid edge, changes the number of channels the range covers by
\* one, and leaves its low edge on element 0 and its high edge on the last
\* element of its channel
C17_WholeChannelGrows ==
    (RangeMoveChannel /\ WholeChannel(call.pre.multi) /\ NotAtEdge) =>
        /\ Max2(multi[1].channel, multi[2].channel)
              - Min2(multi[1].channel, multi[2].channel) = 1
        /\ \E i \in 1 .. 2 :
              /\ multi[i].channel = Min2(multi[1].channel, multi[2].channel)
              /\ multi[i].element = 0
              /\ multi[3 - i].element = NumElements(multi[3 - i].channel) - 1

\* C17: movechannel on a range that spans one whole channel c, not at the
\* grid edge, moves the range to the whole adjacent channel: both endpoints
\* go to channel c - 1 or c + 1 and keep pattern and row, one is on element
\* 0 and the other on the last element of that channel, so the range still
\* covers one channel
C17_WholeChannelMoves ==
    (RangeMoveChannel /\ WholeChannel(call.pre.multi) /\ NotAtEdge) =>
        /\ multi[1].channel = call.pre.multi[1].channel + ChannelStep
        /\ WholeChannel(multi)
        /\ SameRows(multi, call.pre.multi)

C17_Witness ==
    /\ RangeMoveChannel
    /\ call.cmd[3] = "right"
    /\ WholeChannel(call.pre.multi)
    /\ call.pre.multi[1].channel = 1
    /\ call.pre.multi[1].row # call.pre.multi[2].row
    /\ multi[1].channel = 2
    /\ multi[2].channel = 2
    /\ multi[1].element # multi[2].element

\* C18 as stated: movechannel on a range in one channel that does not span
\* the whole channel, not at the grid edge, steps an endpoint to the next
\* channel in the direction and puts it on the last element of that channel
\* when moving right, on element 0 when moving left
C18_PartialSteps ==
    (RangeMoveChannel /\ OneChannel(call.pre.multi)
        /\ ~WholeChannel(call.pre.multi) /\ NotAtEdge) =>
        \E i \in 1 .. 2 :
            /\ multi[i].channel = call.pre.multi[i].channel + ChannelStep
            /\ multi[i].element = IF ChannelStep > 0
                                  THEN NumElements(multi[i].channel) - 1
                                  ELSE 0

\* C18: movechannel on a range in one channel that does not span the whole
\* channel steps no endpoint: both stay in their channel, pattern and row,
\* the endpoint with the larger element (the first when they are equal)
\* goes to the last element and the other to element 0
C18_PartialWidens ==
    (RangeMoveChannel /\ OneChannel(call.pre.multi)
        /\ ~WholeChannel(call.pre.multi)) =>
        /\ OneChannel(multi)
        /\ multi[1].channel = call.pre.multi[1].channel
        /\ SameRows(multi, call.pre.multi)
        /\ IF call.pre.multi[1].element < call.pre.multi[2].element
           THEN /\ multi[1].element = 0
                /\ multi[2].element = NumElements(multi[2].channel) - 1
           ELSE /\ multi[2].element = 0
                /\ multi[1].element = NumElements(multi[1].channel) - 1

C18_Witness ==
    /\ RangeMoveChannel
    /\ call.cmd[3] = "left"
    /\ OneChannel(call.pre.multi)
    /\ ~WholeChannel(call.pre.multi)
    /\ NotAtEdge
    /\ call.pre.multi[1].element = 1
    /\ call.pre.multi[2].element = 1
    /\ multi[1].channel = call.pre.multi[1].channel
    /\ multi[2].element = 0

\* the endpoints of the range before the last call, indexed from 0
PreSl == [i \in {0, 1} |-> call.pre.multi[i + 1]]

\* the index, from 0, of the endpoint the last movechannel hands to move:
\* for right the endpoint with the smaller channel (element, in one
\* channel), for left the other one
SteppedIndex ==
    IF ChannelStep > 0
    THEN 1 - B2N(mdOf(PreSl[0], OneChannel(call.pre.multi))
                    < mdOf(PreSl[1], OneChannel(call.pre.multi)))
    ELSE B2N(mdOf(PreSl[0], OneChannel(call.pre.multi))
                < mdOf(PreSl[1], OneChannel(call.pre.multi)))

\* the last call was a range-mode movechannel that stepped an endpoint to
\* another channel
Stepped ==
    /\ RangeMoveChannel
    /\ OneChannel(call.pre.multi) => WholeChannel(call.pre.multi)
    /\ PreSl[SteppedIndex].channel + ChannelStep \in 0 .. NumChannels - 1

\* C19: after a range-mode movechannel that stepped an endpoint to another
\* channel, the cursor has the channel and element of the stepped endpoint
\* and its own pattern and row
C19_CursorOnStepped ==
    Stepped =>
        /\ single.channel = multi[SteppedIndex + 1].channel
        /\ single.element = multi[SteppedIndex + 1].element
        /\ single.pattern = call.pre.single.pattern
        /\ single.row = call.pre.single.row

\* movechannel right on a range over two channels: the stepped endpoint is
\* on the last element, the cursor on element 0
C19_Witness ==
    /\ Stepped
    /\ call.cmd[3] = "right"
    /\ ~OneChannel(call.pre.multi)
    /\ multi[SteppedIndex + 1].channel = PreSl[SteppedIndex].channel + 1
    /\ single.channel = multi[SteppedIndex + 1].channel
    /\ single.element # multi[SteppedIndex + 1].element

\* note ids tried: the fillers, ids past the end of the table, and a note of
\* an octave the chip cannot play
ProbeNotes ==
    {NoteCut, NoteCut + 1, NoteC0 + (8 * OctaveSize), NoteLast, NoteLast + 95,
     NoteLast + 96}

\* the tried note ids whose table entry is missing or has no frequency, for
\* the selected channel
MutedNotes ==
    {n \in ProbeNotes :
        NoteFrequency(channels[selectedChannel + 1].type, n) = "undefined"}

\* the last call was a rest or cut key for note id n
CalledSpecial(n) ==
    /\ call.active
    /\ Tok(call.cmd, 1) = "note"
    /\ \/ toLowerCase(Tok(call.cmd, 2)) = "rest" /\ n = NoteRest
       \/ toLowerCase(Tok(call.cmd, 2)) = "cut" /\ n = NoteCut

\* C20: triggerNote and releaseNote for a note id whose table entry is
\* missing or has frequency undefined return false, emit no event, write no
\* cell, mark no pattern edited and leave the project clean, in record mode
\* and outside it
C20_UndefinedNoteIgnored ==
    /\ \A n \in MutedNotes, v \in {0, 1} :
          /\ triggerNote(Program, n, v)
                = [p |-> Program, ret |-> FALSE, events |-> <<>>]
          /\ releaseNote(Program, n, v)
                = [p |-> Program, ret |-> FALSE, events |-> <<>>]
    /\ \A n \in MutedNotes :
          CalledSpecial(n) =>
              /\ call.ret = FALSE
              /\ call.events = <<>>
              /\ cells = call.pre.cells
              /\ edited = call.pre.edited
              /\ dirty = call.pre.dirty

C20_Witness ==
    /\ CalledSpecial(NoteCut)
    /\ NoteCut \in MutedNotes
    /\ call.state
    /\ recordMode
    /\ getCurrentElementId(Program) = 0
    /\ getCurrentPatternCell(Program) # <<>>
    /\ cells[getCurrentPatternCell(Program)] # NoteCut
    /\ call.ret = FALSE
    /\ call.events = <<>>

----------------------------------------------------------------------------
(* C21..C22: notes in record mode *)

\* the record-mode write of triggerNote can happen in program state p
CanRecord(p) ==
    /\ recordMode
    /\ getCurrentElementId(p) = 0
    /\ getCurrentPatternCell(p) # <<>>

\* the last call was a key-down of a note key
KeyDown ==
    /\ call.active
    /\ call.cmd[1] = "note"
    /\ Len(call.cmd) = 3
    /\ call.state

\* the last call was a key-up of a note key
KeyUp ==
    /\ call.active
    /\ call.cmd[1] = "note"
    /\ Len(call.cmd) = 3
    /\ ~call.state

\* the scmap name of the note key of the last call
KeyName == <<IF toLowerCase(call.cmd[2]) = "octave0" THEN 0 ELSE 1, 1>>

\* C21: triggerNote for a note whose table entry holds NaN emits no note-on
\* event and returns true only if the record-mode write succeeds: false when
\* record mode is off, when the cursor is not on the note column, or when
\* the pattern cell does not resolve
C21_NaNTrueOnlyIfWritten ==
    \A n \in nanNotes :
        /\ triggerNote(Program, n, 1).events = <<>>
        /\ triggerNote(Program, n, 1).ret = CanRecord(Program)

C21_Witness ==
    /\ KeyDown
    /\ scmap[KeyName] \in nanNotes
    /\ ~CanRecord(call.pre)
    /\ call.events = <<>>
    /\ cells = call.pre.cells
    /\ triggerNote(Program, scmap[KeyName], 1).ret

\* the note the last call handed to triggerNote, 0 when it handed none
TriggeredNote ==
    CASE KeyDown -> scmap[KeyName]
      [] call.active /\ call.cmd[1] = "note" /\ Len(call.cmd) = 2 /\ call.state ->
            (IF toLowerCase(call.cmd[2]) = "rest" THEN NoteRest ELSE NoteCut)
      [] OTHER -> 0

\* the last call handed triggerNote a note that record mode places
Records ==
    /\ call.active
    /\ call.cmd[1] = "note"
    /\ call.state
    /\ CanRecord(call.pre)
    /\ NoteFrequency(channels[selectedChannel + 1].type, TriggeredNote) # "undefined"

\* the pattern cell at a cursor
CellAt(s) == <<s.channel, matrix[s.pattern + 1][s.channel + 1], s.row>>

\* C22: pattern data is written only by triggerNote, in record mode, on the
\* note column, for a note with a numeric frequency and a cell that
\* resolves; then exactly the cell at the cursor receives the note, its
\* pattern is marked edited and the project dirty; every other call leaves
\* cells, edited marks and the dirty flag as they were
C22_OnlyTriggerNoteWrites ==
    call.active =>
        IF Records
        THEN /\ cells = [call.pre.cells EXCEPT ![CellAt(call.pre.single)] = TriggeredNote]
             /\ edited = call.pre.edited
                            \cup {<<call.pre.single.channel, CellAt(call.pre.single)[2]>>}
             /\ dirty
        ELSE /\ cells = call.pre.cells
             /\ edited = call.pre.edited
             /\ dirty = call.pre.dirty

C22_Witness ==
    /\ Records
    /\ KeyDown
    /\ call.pre.single.pattern = 1
    /\ cells[CellAt(call.pre.single)] = TriggeredNote
    /\ call.pre.cells[CellAt(call.pre.single)] # TriggeredNote
    /\ \E c \in DOMAIN cells : c # CellAt(call.pre.single) /\ cells[c] # TriggeredNote
    /\ ~call.pre.dirty
    /\ dirty

----------------------------------------------------------------------------
(* C23, C27: releasing notes *)

\* the last call was the driver's pianoTrigger or pianoRelease
DriverCalled(name) ==
    /\ call.active
    /\ call.cmd = <<name>>

\* the sustain map m holds the note for some channel
Held(m, note) == \E channel \in DOMAIN m : m[channel] = note

C27_SustainMap ==
    /\ DriverCalled("pianoTrigger") /\ call.ret =>
          /\ call.arg.channel \in DOMAIN pianoNotes
          /\ pianoNotes[call.arg.channel] = call.arg.note
    /\ DriverCalled("pianoRelease") /\ Held(call.preDriver.pianoNotes, call.arg.note) =>
          ~Held(pianoNotes, call.arg.note)
    /\ DriverCalled("pianoTrigger")
          /\ DriverFrequency("YM7101PSG", call.arg.note) # "number" =>
          /\ call.ret = FALSE
          /\ chip = call.preDriver.chip
          /\ pianoNotes = call.preDriver.pianoNotes

\* a release repeated right after the release of a held note writes again
C27_Witness ==
    /\ DriverCalled("pianoRelease")
    /\ Held(pianoNotes, call.arg.note)
    /\ Len(chip) > Len(releaseWrites) + 1
    /\ chip[Len(chip) - 1] = releaseWrites[1]
    /\ chip[Len(chip)] = releaseWrites[1]
    /\ chip[1].value = call.arg.note

----------------------------------------------------------------------------
(* C24: note keys *)

\* the note key of the last call had a key-down that no key-up followed
KeyIsDown == KeyName \in DOMAIN call.preHistory.down

\* C24: the key-up of a note key releases exactly the note its last key-down
\* handed to triggerNote, whatever the base octave is by then, and removes
\* the key's entry from the key map; the entries of other keys stay, and a
\* key-up of a key that is not down releases nothing
C24_KeyUpReleasesItsNote ==
    KeyUp =>
        /\ KeyIsDown =>
              call.events
                 = releaseNote(call.pre, call.preHistory.down[KeyName], 0).events
        /\ ~KeyIsDown => call.events = <<>>
        /\ KeyName \notin DOMAIN scmap
        /\ \A k \in DOMAIN call.pre.scmap \ {KeyName} :
              k \in DOMAIN scmap /\ scmap[k] = call.pre.scmap[k]

\* a key is released at another base octave than it went down at, while the
\* other key holds the note this key would have now
C24_Witness ==
    /\ KeyUp
    /\ KeyIsDown
    /\ call.events # <<>>
    /\ call.events[1].note = call.preHistory.down[KeyName]
    /\ call.preHistory.down[KeyName]
          # NoteC0 + 1 + ((octave + KeyName[1]) * OctaveSize)
    /\ \E k \in DOMAIN scmap :
          scmap[k] = NoteC0 + 1 + ((octave + KeyName[1]) * OctaveSize)

----------------------------------------------------------------------------
(* C28: MIDI keys *)

\* the last call was the MidiNoteOff listener
MidiOff == call.active /\ call.cmd = <<"MidiNoteOff">>

\* the MIDI key of the last call had a MidiNoteOn that triggered a note and
\* that no release followed
MidiIsDown == call.arg \in DOMAIN call.preHistory.midi

\* C28: every note-off emitted for a MidiNoteOff of key k carries the driver
\* note that an earlier MidiNoteOn of k triggered and that was not released
\* since, whatever the octave is by then; a MidiNoteOff of a key with no
\* such MidiNoteOn emits no note-off
C28_MidiNoteOffMatches ==
    MidiOff =>
        IF MidiIsDown
        THEN \A i \in DOMAIN call.events :
                call.events[i].note = call.preHistory.midi[call.arg]
        ELSE call.events = <<>>

\* a second MidiNoteOff of a key emits a note-off for note 0
C28_Witness ==
    /\ MidiOff
    /\ ~MidiIsDown
    /\ call.arg \in DOMAIN call.preKeys
    /\ call.preKeys[call.arg] = 0
    /\ Len(call.events) = 1
    /\ call.events[1].type = "PianoNoteOff"
    /\ call.events[1].note = 0

----------------------------------------------------------------------------
(* C30: chfx *)

\* the last call was chfx with direction word d
ChfxCalled(d) ==
    /\ call.active
    /\ call.cmd = <<"chfx", d>>

\* the effects count of the cursor's channel before and after the last call
FxBefore == call.pre.channels[call.pre.single.channel + 1].effects
FxAfter == channels[call.pre.single.channel + 1].effects

\* the last chfx call could not change the count: it is at the limit in the
\* direction asked, the channel has no effects, or the direction is sideways
ChfxBlocked(d) ==
    \/ d \in {"left", "right"}
    \/ "EFFECTS" \notin call.pre.channels[call.pre.single.channel + 1].features
    \/ d = "up" /\ FxBefore = MaxEffects
    \/ d = "down" /\ FxBefore = 1

\* C30: the effects count of every channel stays in 1 .. maxEffects; chfx
\* up/down returns true exactly when it changed the count of the cursor's
\* channel, and then by one; it returns false and changes nothing at the
\* limit, on a channel without effects and for left/right; the counts of
\* the other channels never change
C30_ChfxCounts ==
    /\ \A c \in 1 .. Len(channels) : channels[c].effects \in 1 .. MaxEffects
    /\ \A d \in Directions :
          ChfxCalled(d) =>
              /\ call.ret = (FxAfter # FxBefore)
              /\ call.ret = ~ChfxBlocked(d)
              /\ call.ret => FxAfter - FxBefore \in {-1, 1}
              /\ call.ret => (d = "up") = (FxAfter > FxBefore)
              /\ \A c \in 1 .. Len(channels) :
                    c # call.pre.single.channel + 1 => channels[c] = call.pre.channels[c]

C30_Witness ==
    /\ ChfxCalled("up")
    /\ call.ret
    /\ FxAfter = MaxEffects
    /\ FxBefore = MaxEffects - 1

----------------------------------------------------------------------------
(* C25, C26, C29: calls in flight *)

\* the calls in flight are a key-down and then a key-up of the note key,
\* both over
DownUpOver ==
    /\ Len(tasks) = 2
    /\ tasks[1].kind = "down"
    /\ tasks[2].kind = "up"
    /\ tasks[1].pc = "done"
    /\ tasks[2].pc = "done"

\* C25: whatever the interleaving at the awaits, once a key-down and the
\* key-up dispatched after it are both over, a note-off was emitted for every
\* note-on of the key-down and the key map has no entry for the key
C25_NoStuckNote ==
    DownUpOver =>
        /\ \A i \in DOMAIN tasks[1].events :
              \E j \in DOMAIN tasks[2].events :
                  /\ tasks[2].events[j].type = "PianoNoteOff"
                  /\ tasks[2].events[j].note = tasks[1].events[i].note
        /\ AsyncKey \notin DOMAIN scmap

\* the key-up ran while the key-down was suspended: the note-on has no
\* note-off and the key stays in the key map
C25_Witness ==
    /\ DownUpOver
    /\ Len(tasks[1].events) = 1
    /\ tasks[1].events[1].type = "PianoNoteOn"
    /\ tasks[2].events = <<>>
    /\ AsyncKey \in DOMAIN scmap

\* the awaits of the sel commands
SelAwaits == {"scrollToRow", "ensureVisibleChannel", "setSelectedChannel"}

\* C26: no command changes the cursor or the range before the collaborator
\* it awaits has answered: while a sel command is suspended, the cursor and
\* the range are what they were when it was dispatched
C26_NoMutationBeforeAwait ==
    \A i \in 1 .. Len(tasks) :
        tasks[i].kind = "sel" /\ tasks[i].pc \in SelAwaits =>
            /\ single = tasks[i].pre[1]
            /\ multi = tasks[i].pre[2]

\* movechannel is suspended at ensureVisibleChannel with the range stepped
\* and the cursor moved to another channel
C26_Witness ==
    \E i \in 1 .. Len(tasks) :
        /\ tasks[i].pc = "ensureVisibleChannel"
        /\ multi # tasks[i].pre[2]
        /\ single.channel # tasks[i].pre[1].channel
        /\ selectedChannel # single.channel

\* C29: the cell triggerNote writes in record mode is the one at the cursor
\* of the moment triggerNote was entered, and its note-on carries the channel
\* selected then, also when a cursor move runs while it is suspended
C29_WritesWhereInvoked ==
    \A i \in 1 .. Len(tasks) :
        tasks[i].kind = "down" /\ tasks[i].wrote # <<>> =>
            /\ tasks[i].wrote = CellAt(tasks[i].at)
            /\ \A j \in DOMAIN tasks[i].events :
                  tasks[i].events[j].channel = channels[selectedChannel + 1].id

\* the note went to the cell the cursor was moved to meanwhile
C29_Witness ==
    \E i \in 1 .. Len(tasks) :
        /\ tasks[i].kind = "down"
        /\ tasks[i].wrote # <<>>
        /\ tasks[i].wrote # CellAt(tasks[i].at)
        /\ cells[tasks[i].wrote] = tasks[i].n
        /\ cells[CellAt(tasks[i].at)] # tasks[i].n

\* the range extendtop and extendbottom work on: the existing one, or two
\* copies of the cursor
RangeBefore ==
    IF call.pre.multi = NoMulti
    THEN <<call.pre.single, call.pre.single>> ELSE call.pre.multi

\* the endpoint with the smaller row, the first one on a tie
TopEnd(sl) == IF sl[2].row < sl[1].row THEN 2 ELSE 1

\* the endpoint with the larger row, the first one on a tie
BottomEnd(sl) == IF sl[2].row > sl[1].row THEN 2 ELSE 1

\* the call moved endpoint e of the range and the cursor to the row, and
\* nothing else
ExtendedTo(e, row) ==
    /\ call.ret = TRUE
    /\ multi[e] = [RangeBefore[e] EXCEPT !.row = row]
    /\ multi[3 - e] = RangeBefore[3 - e]
    /\ single = [call.pre.single EXCEPT !.row = row]

\* the rows of the range after extendtop and then extendbottom from here
TopThenBottomRows ==
    LET a == selExtendTop(single, multi)
        b == selExtendBottom(a.single, a.multi)
    IN  IF a.ret /\ b.ret THEN {b.multi[1].row, b.multi[2].row} ELSE {}

\* C31: extendtop moves the range endpoint with the smaller row (the first
\* on a tie) and the cursor to row 0, extendbottom moves the endpoint with
\* the larger row and the cursor to the last row; the other endpoint and
\* every pattern, channel and element field stay, both return true, and
\* extendtop followed by extendbottom gives endpoint rows 0 and
\* patternLen - 1 from every state
C31_ExtendEdges ==
    /\ Called("extendtop") => ExtendedTo(TopEnd(RangeBefore), 0)
    /\ Called("extendbottom") =>
          ExtendedTo(BottomEnd(RangeBefore), patternLen - 1)
    /\ TopThenBottomRows = {0, patternLen - 1}

C31_Witness ==
    /\ Called("extendbottom")
    /\ call.pre.multi # NoMulti
    /\ call.pre.multi[1].row = 0
    /\ call.pre.multi[2].row = 1
    /\ call.pre.multi[1].channel # call.pre.multi[2].channel
    /\ call.pre.single.row = 0
    /\ multi[2].row = patternLen - 1
    /\ patternLen > 2

\* the Exit event was raised on a dirty project and its listener is over
ExitAsked == exit.pc = "done" /\ exit.asked

\* the user ended up with a completed save or an explicit "Don't save"
ExitSettled ==
    \/ exit.answer = "Don't save"
    \/ exit.answer = "Save" /\ exit.save = "saved"

\* C32: an Exit event on a dirty project is cancelled exactly when the user
\* ends up with neither a completed save nor "Don't save": on Cancel, on a
\* failing dialog, and on Save when the save is cancelled, fails or throws
C32_ExitCancelled == ExitAsked => (exit.cancelled <=> ~ExitSettled)

C32_Witness ==
    /\ ExitAsked
    /\ exit.answer = "Save"
    /\ exit.save = "throws"
    /\ exit.settled = "rejected"
    /\ ~exit.cancelled

\* the last handler of the main process was UiExit with the state
UiExitCalled(state) == ipcCall.name = "UiExit" /\ ipcCall.arg = state

\* the worker's 'quit' acknowledgement has arrived and worker.terminate()
\* was called
QuitHandled == ipc.acked => ipc.worker # "running"

\* C33: UiExit(false) changes nothing; UiExit(true) disconnects the rpc
\* client and posts 'quit' to the worker; once the worker's 'quit'
\* acknowledgement has arrived the worker is terminated and then the windows
\* are destroyed, whatever else the worker sent in between; no window is
\* destroyed before the acknowledgement
C33_ExitAfterAck ==
    /\ UiExitCalled(FALSE) => ipc = ipcCall.pre
    /\ UiExitCalled(TRUE) =>
          /\ ~ipc.rpc
          /\ ipc.inbox = Append(ipcCall.pre.inbox, Message("quit", "", 0))
    /\ QuitHandled
    /\ ipc.windows = "destroyed" => ipc.acked /\ ipc.worker = "terminated"

C33_Witness ==
    /\ ipc.exits = 1
    /\ ipc.logs = 1
    /\ ipc.acked
    /\ ipc.outbox = <<>>
    /\ ipc.worker = "running"
    /\ ipc.windows = "open"
    /\ \A i \in 1 .. Len(ipc.listeners) : ipc.listeners[i].kind # "exit"

\* the replies sent for request req
RepliesTo(req) == {i \in 1 .. Len(ipc.replies) : ipc.replies[i].req = req}

\* a listener of DriverFunc is registered for request req
ListensFor(req) ==
    \E i \in 1 .. Len(ipc.listeners) :
        ipc.listeners[i].kind = "func" /\ ipc.listeners[i].req = req

\* C34: a DriverFunc request gets at most one reply, exactly one once the
\* worker's answer to it has arrived; the reply carries the worker's answer
\* to that very request, also when two requests for one function name are
\* outstanding; a request that was replied to has no listener any more
C34_OwnReply ==
    /\ \A i \in 1 .. Len(ipc.replies) :
          ipc.replies[i].data[2] = ipc.replies[i].req
    /\ \A req \in 1 .. ipc.requests :
          /\ Cardinality(RepliesTo(req)) <= 1
          /\ req \in ipc.answered => Cardinality(RepliesTo(req)) = 1
          /\ RepliesTo(req) # {} => ~ListensFor(req)

C34_Witness ==
    /\ ipc.requests = 2
    /\ ipc.answered = {1}
    /\ Len(ipc.replies) = 2
    /\ ipc.replies[1] = [req |-> 1, data |-> Response("mute", 1)]
    /\ ipc.replies[2] = [req |-> 2, data |-> Response("mute", 1)]
    /\ ~ListensFor(2)

====
